---- MODULE Spec2Model ----
(***************************************************************************)
(* Room management and combat resolution core of 40000Warriors.            *)
(*                                                                         *)
(* Python values are modelled as follows: None, True and False returned    *)
(* by a method are the strings "None", "True" and "False"; room           *)
(* identifiers and keys are strings; boolean attributes are BOOLEAN.       *)
(* transition_progress is kept in hundredths (0.05 is 5, 1 is 100): the    *)
(* float sums 0.05+...+0.05 first reach >= 1 at the 20th addition, exactly *)
(* as the hundredths do.  pygame.time.get_ticks() is the variable clock,   *)
(* in milliseconds.                                                        *)
(***************************************************************************)
EXTENDS Integers, Sequences, FiniteSets, TLC

None == "None"
PyTrue == "True"
PyFalse == "False"

\* Python truthiness of a returned value.
Truthy(v) == v \notin {None, PyFalse}

(***************************************************************************)
(* Bounds of the model.                                                    *)
(***************************************************************************)
MaxEnemies == 2        \* longest enemy list of a room
ClockStep == 500       \* milliseconds that pass in one clock step
MaxClock == 3000       \* the clock stops advancing here
MaxOverkill == 40       \* take_damage is not called once health is this far below 0
PatternUnit == 1       \* updates per hundredth of an attack pattern's duration
MaxMinions == 1        \* longest list of summoned minions
MaxEffects == 1        \* longest list of arena effects
AbilityClockStep == 2500   \* milliseconds between two looks at an ability
MaxAbilityClock == 12500   \* the ability clock stops advancing here
DrainIncrement == 50   \* health a worn-down boss loses between two updates
MaxBullets == 1        \* longest list of bullets in flight
MaxMeleeClock == 1000  \* the time up to which a melee is followed
PickupClockStep == 15500   \* milliseconds between two looks at the pickups
MaxPickupClock == 124000     \* the pickups are followed up to this time
AttackClockStep == 400     \* milliseconds between two looks at an enemy
MaxAttackClock == 2000
SpecialClockStep == 2500   \* milliseconds between two tries of an ability
MaxSpecialClock == 12500
ShotClockStep == 501       \* milliseconds waited for the next shot
MaxShotClock == 16000
FrameClockStep == 2600     \* milliseconds between two frames that are followed
MaxFrameClock == 13100

(***************************************************************************)
(* Identifiers.                                                            *)
(***************************************************************************)
\* keys passed to add_room (main_game.py setup_rooms)
RoomIds == {"main_hall", "armory"}
\* ids a transition may name; "side_chamber" is never registered
TargetIds == RoomIds \cup {"side_chamber"}
Effects == {"fade", "portal"}
\* Health and damage are kept in quarter points, so that the melee damage at
\* a quarter, a half and three quarters of the attack range (18.75, 12.5 and
\* 6.25, exact as floats) is a whole number: Pts(30) is a health of 30.
Pts(n) == 4 * n
\* the player's health is counted in thousandths of a point
Milli(n) == 1000 * n
\* Game.max_ammo
max_ammo == 30
\* the Tyranids with a special ability on a cooldown of its own
Specials == {"lictor", "zoanthrope", "hive_tyrant", "harpy", "mawloc"}
\* enemies: a Gaunt (health 30) and a Genestealer (health 50)
Entities == {"gaunt", "genestealer"}
InitialHealth(e) == IF e = "gaunt" THEN Pts(30) ELSE Pts(50)
\* damage amounts: nothing, a glancing melee hit, a bolter round, a melee hit,
\* a plasma round, a melta round
Amounts == {0, 5, 20, 25, 30, 40}

\* The Room object the game builds for a key: one Room per key.
RoomOf(id) == id
RoomObjs == {RoomOf(id) : id \in RoomIds}

\* The RoomTransition objects of setup_rooms: the door of the main hall that
\* leads to the armory and the door of the armory that leads back.
Doors == {"hall_east", "armory_west"}
DoorRect(d) ==
    IF d = "hall_east" THEN [x |-> 700, y |-> 300, width |-> 100, height |-> 100]
    ELSE [x |-> 50, y |-> 300, width |-> 100, height |-> 100]
target_room(d) == IF d = "hall_east" THEN "armory" ELSE "main_hall"
\* Room.transitions of each Room, in insertion order
Transitions(r) == IF r = RoomOf("main_hall") THEN <<"hall_east">>
                  ELSE <<"armory_west">>
\* the door whose methods are called directly
ApiDoors == {"hall_east"}
\* key names given to lock and unlock
Keys == {None, "red_key", "blue_key"}

\* RoomTransition.activation_cooldown, milliseconds
ActivationCooldown == 1000
\* the player's bounding box (ScoutMarine.width, height)
PlayerWidth == 50
PlayerHeight == 70
\* screen size (main_game.py) and the player's start position
ScreenWidth == 800
ScreenHeight == 600
\* places the player walks to: the start, the spot where the armory door
\* puts the player, and spots next to and inside the hall's east door
PlayerSpots == {<<400, 300>>, <<60, 300>>, <<650, 300>>, <<655, 300>>,
                <<655, 230>>}
\* player rectangles handed to can_activate: around every edge of the door
ProbeXs == {650, 651, 799, 800}
ProbeYs == {230, 231, 399, 400}

\* RoomManager.transition_speed (0.05) and the completion level 1, in hundredths
TransitionSpeed == 5
ProgressOne == 100

VARIABLES
    \* RoomManager
    rooms,                 \* dict room_id -> Room
    current_room_id,
    next_room_id,
    is_transitioning,
    transition_progress,
    transition_effect,
    \* Room (one entry per Room object)
    enemies,               \* Room.enemies, a list
    is_cleared,            \* Room.is_cleared
    \* RoomTransition (one entry per door)
    is_locked,
    key_required,
    is_active,
    last_activation_time,
    \* pygame.time.get_ticks()
    clock,
    \* Game: the player's position (ScoutMarine.x, y), Room.is_visited of each Room, the objective
    scout_x,
    scout_y,
    is_visited,
    objective,
    \* TyranidSprite.health of each enemy
    health,
    \* the Boss object
    boss,
    \* history: the successive current phases of the boss
    phase_trace,
    \* the ScoutMarine's combat attributes
    scout,
    \* Game.enemies and Game.kills
    game,
    \* the position <<x, y>> of each enemy object, <<>> before it is built
    enemy_pos,
    \* the attack and ability attributes of the Tyranid objects
    tyranid,
    \* the PickupManager
    pickup_manager,
    \* the last call and what it returned
    ret,
    \* history: the time of the last successful activate() of a door, -1 if none
    activated_at,
    \* history: the target of the last accepted transition_to_room and the
    \* number of update_transition calls made since it was accepted
    started

mgrVars == <<rooms, current_room_id, next_room_id, is_transitioning,
             transition_progress, transition_effect>>
roomVars == <<enemies, is_cleared>>
doorVars == <<is_locked, key_required, is_active, last_activation_time>>
gameVars == <<scout_x, scout_y, is_visited, objective>>
combatVars == <<scout, game, enemy_pos>>
worldVars == <<tyranid, pickup_manager>>
entityVars == <<health, boss, phase_trace, combatVars, worldVars>>
vars == <<rooms, current_room_id, next_room_id, is_transitioning,
          transition_progress, transition_effect, enemies, is_cleared,
          is_locked, key_required, is_active, last_activation_time, clock,
          scout_x, scout_y, is_visited, objective, health, boss, phase_trace,
          scout, game, enemy_pos, tyranid, pickup_manager,
          ret, started, activated_at>>

Call(op, arg, val) == [op |-> op, arg |-> arg, val |-> val]

(***************************************************************************)
(* RoomManager                                                             *)
(***************************************************************************)
\* dict.get: the value under the key, or None
DictGet(d, k) == IF k \in DOMAIN d THEN d[k] ELSE None

get_current_room == DictGet(rooms, current_room_id)

InitManager ==
    /\ rooms = <<>>
    /\ current_room_id = None
    /\ transition_effect = None
    /\ transition_progress = 0
    /\ is_transitioning = FALSE
    /\ next_room_id = None

InitRooms ==
    /\ enemies = [r \in RoomObjs |-> <<>>]
    /\ is_cleared = [r \in RoomObjs |-> FALSE]

add_room(room_id, room) ==
    /\ rooms' = [k \in DOMAIN rooms \cup {room_id} |->
                    IF k = room_id THEN room ELSE rooms[k]]
    /\ current_room_id' = IF current_room_id = None THEN room_id
                          ELSE current_room_id
    /\ UNCHANGED <<next_room_id, is_transitioning, transition_progress,
                   transition_effect>>
    /\ ret' = Call("add_room", room_id, None)
    /\ UNCHANGED <<roomVars, started, doorVars, clock, activated_at, gameVars, entityVars>>

\* what transition_to_room returns
TransitionToRoomValue(room_id) ==
    IF room_id \notin DOMAIN rooms \/ is_transitioning THEN PyFalse ELSE PyTrue

\* transition_to_room without the test of is_transitioning: a second request
\* replaces the pending one
TransitionToRoomBody_retarget(room_id, effect) ==
    IF room_id \notin DOMAIN rooms
    THEN UNCHANGED <<mgrVars, started>>
    ELSE /\ is_transitioning' = TRUE
         /\ next_room_id' = room_id
         /\ transition_effect' = effect
         /\ transition_progress' = 0
         /\ started' = [target |-> room_id, ticks |-> 0]
         /\ UNCHANGED <<rooms, current_room_id>>

\* the state change of transition_to_room
TransitionToRoomBody(room_id, effect) ==
    IF room_id \notin DOMAIN rooms \/ is_transitioning
    THEN UNCHANGED <<mgrVars, started>>
    ELSE /\ is_transitioning' = TRUE
         /\ next_room_id' = room_id
         /\ transition_effect' = effect
         /\ transition_progress' = 0
         /\ started' = [target |-> room_id, ticks |-> 0]
         /\ UNCHANGED <<rooms, current_room_id>>

transition_to_room(room_id, effect) ==
    /\ TransitionToRoomBody(room_id, effect)
    /\ ret' = Call("transition_to_room", room_id, TransitionToRoomValue(room_id))
    /\ UNCHANGED <<roomVars, doorVars, clock, activated_at, gameVars, entityVars>>

\* the history variable counts the call, up to the number a transition needs
TicksToComplete == (ProgressOne + TransitionSpeed - 1) \div TransitionSpeed

CountTick ==
    started' = IF started.target # None /\ started.ticks < TicksToComplete
               THEN [started EXCEPT !.ticks = @ + 1]
               ELSE started

\* update_transition that swaps the room as soon as the animation is half way
UpdateTransitionBody_early ==
    IF ~is_transitioning
    THEN UNCHANGED mgrVars
    ELSE LET progress == transition_progress + TransitionSpeed IN
         /\ transition_progress' = IF progress >= ProgressOne THEN 0 ELSE progress
         /\ current_room_id' = IF 2 * progress >= ProgressOne
                               THEN next_room_id ELSE current_room_id
         /\ next_room_id' = IF progress >= ProgressOne THEN None ELSE next_room_id
         /\ is_transitioning' = (progress < ProgressOne)
         /\ UNCHANGED <<rooms, transition_effect>>

\* update_transition that completes only when progress exceeds 1
UpdateTransitionBody_late ==
    IF ~is_transitioning
    THEN UNCHANGED mgrVars
    ELSE LET progress == transition_progress + TransitionSpeed IN
         IF progress > ProgressOne
         THEN /\ current_room_id' = next_room_id
              /\ next_room_id' = None
              /\ is_transitioning' = FALSE
              /\ transition_progress' = 0
              /\ UNCHANGED <<rooms, transition_effect>>
         ELSE /\ transition_progress' = progress
              /\ UNCHANGED <<rooms, current_room_id, next_room_id,
                             is_transitioning, transition_effect>>

\* update_transition that leaves the progress as it is when it completes
UpdateTransitionBody_keep_progress ==
    IF ~is_transitioning
    THEN UNCHANGED mgrVars
    ELSE LET progress == transition_progress + TransitionSpeed IN
         IF progress >= ProgressOne
         THEN /\ current_room_id' = next_room_id
              /\ next_room_id' = None
              /\ is_transitioning' = FALSE
              /\ transition_progress' = progress
              /\ UNCHANGED <<rooms, transition_effect>>
         ELSE /\ transition_progress' = progress
              /\ UNCHANGED <<rooms, current_room_id, next_room_id,
                             is_transitioning, transition_effect>>

\* the body of update_transition, shared with update
UpdateTransitionBody ==
    IF ~is_transitioning
    THEN UNCHANGED mgrVars
    ELSE LET progress == transition_progress + TransitionSpeed IN
         IF progress >= ProgressOne
         THEN /\ current_room_id' = next_room_id
              /\ next_room_id' = None
              /\ is_transitioning' = FALSE
              /\ transition_progress' = 0
              /\ UNCHANGED <<rooms, transition_effect>>
         ELSE /\ transition_progress' = progress
              /\ UNCHANGED <<rooms, current_room_id, next_room_id,
                             is_transitioning, transition_effect>>

update_transition ==
    /\ UpdateTransitionBody
    /\ CountTick
    /\ ret' = Call("update_transition", None, None)
    /\ UNCHANGED <<roomVars, doorVars, clock, activated_at, gameVars, entityVars>>

(***************************************************************************)
(* Room                                                                    *)
(***************************************************************************)
\* Room.update that recomputes the flag from the list on every call
RoomUpdateBody_recompute(r) ==
    /\ is_cleared' = [is_cleared EXCEPT ![r] = (Len(enemies[r]) = 0)]
    /\ UNCHANGED enemies

\* Room.update on room r: the interior, the transitions, the NPCs and the
\* enemies are updated (animation state, which is not modelled), then the
\* cleared flag is set when no enemy is left.
RoomUpdateBody(r) ==
    /\ is_cleared' = [is_cleared EXCEPT
                         ![r] = IF ~is_cleared[r] /\ Len(enemies[r]) = 0
                                THEN TRUE ELSE @]
    /\ UNCHANGED enemies

room_update(r) ==
    /\ RoomUpdateBody(r)
    /\ ret' = Call("Room.update", r, None)
    /\ UNCHANGED <<mgrVars, started, doorVars, clock, activated_at, gameVars, entityVars>>

add_enemy(r, e) ==
    /\ Len(enemies[r]) < MaxEnemies
    /\ enemies' = [enemies EXCEPT ![r] = Append(@, e)]
    /\ ret' = Call("add_enemy", r, None)
    /\ UNCHANGED <<is_cleared, mgrVars, started, doorVars, clock, activated_at,
                   gameVars, entityVars>>

\* list.remove: drops the first occurrence
RECURSIVE ListRemove(_, _)
ListRemove(s, e) ==
    IF s = <<>> THEN <<>>
    ELSE IF Head(s) = e THEN Tail(s)
    ELSE <<Head(s)>> \o ListRemove(Tail(s), e)

InList(s, e) == \E i \in 1..Len(s) : s[i] = e

\* the game's removal of a dead enemy from the room that owns it
remove_enemy(r, e) ==
    /\ InList(enemies[r], e)
    /\ enemies' = [enemies EXCEPT ![r] = ListRemove(@, e)]
    /\ ret' = Call("enemies.remove", r, None)
    /\ UNCHANGED <<is_cleared, mgrVars, started, doorVars, clock, activated_at,
                   gameVars, entityVars>>

\* RoomManager.update: the transition first, then the room that is current
\* after it
update ==
    /\ UpdateTransitionBody
    /\ CountTick
    /\ LET current_room == DictGet(rooms', current_room_id') IN
         IF current_room # None
         THEN RoomUpdateBody(current_room)
         ELSE UNCHANGED roomVars
    /\ ret' = Call("update", None, None)
    /\ UNCHANGED <<doorVars, clock, activated_at, gameVars, entityVars>>

(***************************************************************************)
(* RoomTransition                                                          *)
(***************************************************************************)
InitDoors ==
    /\ is_locked = [d \in Doors |-> FALSE]
    /\ key_required = [d \in Doors |-> None]
    /\ is_active = [d \in Doors |-> TRUE]
    /\ last_activation_time = [d \in Doors |-> 0]

InitGameVars ==
    /\ scout_x = ScreenWidth \div 2
    /\ scout_y = ScreenHeight \div 2
    /\ is_visited = [r \in RoomObjs |-> FALSE]
    /\ objective = "Explore the gothic hall and eliminate Tyranid threats"

\* ScoutMarine.max_health
player_max_health == 100

\* ScoutMarine.__init__
NewScoutMarine ==
    [direction |-> "right",
     health |-> Milli(100),
     armor |-> 20,
     ammo |-> [bolter |-> 30, plasma |-> 10, melta |-> 5],
     current_weapon |-> "bolter",
     bullets |-> <<>>,
     last_shot_time |-> 0,
     is_attacking |-> FALSE,
     last_attack_time |-> 0]

\* Game.__init__
NewGame ==
    [game_over |-> FALSE, game_won |-> FALSE, game_paused |-> FALSE,
     enemies |-> <<>>, spawn_timer |-> 0,
     current_boss |-> None, boss_active |-> FALSE,
     ammo |-> max_ammo, kills |-> 0]

\* TyranidSprite.__init__ and the subclasses' __init__
NewTyranids ==
    [is_attacking |-> [e \in Entities \cup {"lictor"} |-> FALSE],
     current_state |-> [e \in Entities \cup {"lictor"} |-> None],
     last_attack_time |-> [e \in Entities |-> 0],
     last_trigger |-> [a \in Specials |-> 0],
     is_hidden |-> FALSE, is_flying |-> TRUE, swoop_target |-> None,
     is_burrowed |-> TRUE,
     emergence_time |-> 0]

\* PickupManager.__init__; spawned counts the pickups built so far
NewPickupManager == [pickups |-> <<>>, spawn_timer |-> 0, spawned |-> 0]

InitEntities ==
    /\ health = [e \in Entities |-> InitialHealth(e)]
    /\ enemy_pos = [e \in Entities |-> <<>>]
    /\ scout = NewScoutMarine
    /\ game = NewGame
    /\ tyranid = NewTyranids
    /\ pickup_manager = NewPickupManager

nonDoorVars == <<mgrVars, roomVars, started, gameVars, entityVars>>

lock(d, key_name) ==
    /\ is_locked' = [is_locked EXCEPT ![d] = TRUE]
    /\ key_required' = [key_required EXCEPT ![d] = key_name]
    /\ ret' = Call("lock", <<d, key_name>>, None)
    /\ UNCHANGED <<is_active, last_activation_time, clock, activated_at,
                   nonDoorVars>>

\* unlock that opens the door whatever key is given
unlock_any_key(d, key_name) ==
    /\ is_locked' = [is_locked EXCEPT ![d] = FALSE]
    /\ ret' = Call("unlock", <<d, key_name>>, PyTrue)
    /\ UNCHANGED <<key_required, is_active, last_activation_time, clock,
                   activated_at, nonDoorVars>>

unlock(d, key_name) ==
    /\ IF ~is_locked[d]
       THEN /\ ret' = Call("unlock", <<d, key_name>>, PyTrue)
            /\ UNCHANGED is_locked
       ELSE IF key_required[d] = None \/ key_required[d] = key_name
       THEN /\ is_locked' = [is_locked EXCEPT ![d] = FALSE]
            /\ ret' = Call("unlock", <<d, key_name>>, PyTrue)
       ELSE /\ ret' = Call("unlock", <<d, key_name>>, PyFalse)
            /\ UNCHANGED is_locked
    /\ UNCHANGED <<key_required, is_active, last_activation_time, clock,
                   activated_at, nonDoorVars>>

is_player_colliding(d, player_x, player_y, player_width, player_height) ==
    /\ player_x < DoorRect(d).x + DoorRect(d).width
    /\ player_x + player_width > DoorRect(d).x
    /\ player_y < DoorRect(d).y + DoorRect(d).height
    /\ player_y + player_height > DoorRect(d).y

\* can_activate that tests the cooldown only
CanActivateValue_no_collision(d, player_x, player_y, player_width, player_height) ==
    IF ~is_active[d] \/ is_locked[d] THEN FALSE
    ELSE clock - last_activation_time[d] > ActivationCooldown

\* can_activate that forgets the cooldown
CanActivateValue_no_cooldown(d, player_x, player_y, player_width, player_height) ==
    IF ~is_active[d] \/ is_locked[d] THEN FALSE
    ELSE is_player_colliding(d, player_x, player_y, player_width, player_height)

\* the value can_activate returns in the current state
CanActivateValue(d, player_x, player_y, player_width, player_height) ==
    IF ~is_active[d] \/ is_locked[d] THEN FALSE
    ELSE LET current_time == clock
             cooldown_passed ==
                 current_time - last_activation_time[d] > ActivationCooldown
         IN  is_player_colliding(d, player_x, player_y, player_width,
                                 player_height) /\ cooldown_passed

PyBool(b) == IF b THEN PyTrue ELSE PyFalse

can_activate(d, player_x, player_y, player_width, player_height) ==
    /\ ret' = Call("can_activate", <<d, player_x, player_y>>,
                   PyBool(CanActivateValue(d, player_x, player_y,
                                           player_width, player_height)))
    /\ UNCHANGED <<doorVars, clock, activated_at, nonDoorVars>>

\* activate that stamps the time before it looks at the lock
ActivateBody_stamp_first(d) ==
    /\ last_activation_time' = [last_activation_time EXCEPT ![d] = clock]
    /\ activated_at' = [activated_at EXCEPT ![d] = IF is_locked[d] THEN @ ELSE clock]
    /\ UNCHANGED <<is_locked, key_required, is_active>>

\* the state change of activate
ActivateBody(d) ==
    IF is_locked[d]
    THEN UNCHANGED <<doorVars, activated_at>>
    ELSE /\ last_activation_time' = [last_activation_time EXCEPT ![d] = clock]
         /\ activated_at' = [activated_at EXCEPT ![d] = clock]
         /\ UNCHANGED <<is_locked, key_required, is_active>>

\* what activate returns
ActivateValue(d) == IF is_locked[d] THEN PyFalse ELSE target_room(d)

activate(d) ==
    /\ ActivateBody(d)
    /\ ret' = Call("activate", d, ActivateValue(d))
    /\ UNCHANGED <<clock, nonDoorVars>>

\* time passes
tick ==
    /\ clock + ClockStep <= MaxClock
    /\ clock' = clock + ClockStep
    /\ ret' = Call("get_ticks", None, clock')
    /\ UNCHANGED <<doorVars, activated_at, nonDoorVars>>

(***************************************************************************)
(* TyranidSprite (every enemy and boss inherits take_damage unchanged)     *)
(***************************************************************************)
nonEntityVars == <<mgrVars, roomVars, started, doorVars, clock, activated_at,
                   gameVars>>

\* TyranidSprite.max_health: the health the enemy is built with
max_health(e) == InitialHealth(e)

\* take_damage that adds the amount
TakeDamageHealth_added(e, amount) == health[e] + amount

\* take_damage that stops health at 0
TakeDamageHealth_clamped(e, amount) ==
    IF health[e] - amount < 0 THEN 0 ELSE health[e] - amount

\* the health take_damage leaves
TakeDamageHealth(e, amount) == health[e] - amount

take_damage(e, amount) ==
    /\ health' = [health EXCEPT ![e] = TakeDamageHealth(e, amount)]
    /\ ret' = Call("take_damage", <<e, amount>>, PyBool(health'[e] <= 0))
    /\ UNCHANGED <<nonEntityVars, boss, phase_trace, worldVars, combatVars>>

(***************************************************************************)
(* Boss (boss_system.py): phases, abilities, attack patterns, minions and  *)
(* arena effects of a HiveTyrantBoss.  Each method is a function from the  *)
(* boss before the call to the boss after it, so that Boss.update is the   *)
(* composition of the methods it calls.                                    *)
(***************************************************************************)
\* the BossPhase objects HiveTyrantBoss builds, named by their name attribute
PhaseObjs == {"Normal", "Enraged", "Final"}
\* the phase list HiveTyrantBoss.__init__ builds
HiveTyrantPhases == <<"Normal", "Enraged", "Final">>
health_threshold(p) ==
    CASE p = "Normal" -> 100
      [] p = "Enraged" -> 50
      [] p = "Final" -> 25
\* the BossAbility objects of the first phase, by name, and their cooldowns
AbilityNames == {"psychic_scream", "summon_guards"}
cooldown(a) == IF a = "psychic_scream" THEN 5000 ELSE 10000
\* a name no ability has
UnknownAbility == "bone_sword_sweep"
\* HiveTyrantBoss: health, and speed (kept as a fraction: speed *= 1.5)
BossMaxHealth == 1000
\* Boss.__init__: width and height
BossSize == 100
BossSpeed == 3
\* hits the boss takes: an eighth and a quarter of its health
BossAmounts == {125, 250}
\* HiveTyrantBoss.attack_patterns: durations 300, 200 and 100 updates, that
\* is 3, 2 and 1 times PatternUnit updates
attack_patterns ==
    << [name |-> "normal", duration |-> 3 * PatternUnit],
       [name |-> "summoning", duration |-> 2 * PatternUnit],
       [name |-> "rest", duration |-> 1 * PatternUnit] >>
\* durations of the arena effects a caller adds
EffectDurations == {0, 2}

\* Boss.__init__ followed by the add_ability calls
InitBoss ==
    /\ boss = [health |-> BossMaxHealth,
               phases |-> <<>>,
               current_phase |-> None,
               active |-> [p \in PhaseObjs |-> FALSE],
               enraged |-> FALSE,
               current_pattern |-> 0,
               pattern_timer |-> 0,
               summoned_minions |-> <<>>,
               arena_effects |-> <<>>,
               damage_multiplier |-> 1,
               speed |-> [num |-> BossSpeed, den |-> 1],
               last_used |-> [a \in AbilityNames |-> 0],
               ability_active |-> [a \in AbilityNames |-> FALSE]]
    /\ phase_trace = <<>>

\* list.index: the position of the first occurrence, counted from 0
Index(s, e) == (CHOOSE i \in 1..Len(s) : s[i] = e /\ \A j \in 1..(i - 1) : s[j] # e) - 1

AddPhase(b, phase) ==
    LET appended == [b EXCEPT !.phases = Append(@, phase)] IN
    IF b.current_phase = None
    THEN [appended EXCEPT !.current_phase = phase, !.active[phase] = TRUE]
    ELSE appended

\* on_phase_transition that enrages the boss whatever phase it enters
OnPhaseTransition_any_phase(b) ==
    [b EXCEPT !.pattern_timer = 0,
              !.current_pattern = 0,
              !.summoned_minions = <<>>,
              !.arena_effects = <<>>,
              !.enraged = TRUE,
              !.damage_multiplier = 2,
              !.speed = [num |-> 3 * @.num, den |-> 2 * @.den]]

OnPhaseTransition(b) ==
    LET cleared == [b EXCEPT !.pattern_timer = 0,
                             !.current_pattern = 0,
                             !.summoned_minions = <<>>,
                             !.arena_effects = <<>>]
    IN  IF b.current_phase = "Enraged"
        THEN [cleared EXCEPT !.enraged = TRUE,
                             !.damage_multiplier = 2,
                             !.speed = [num |-> 3 * @.num, den |-> 2 * @.den]]
        ELSE cleared

\* health_percent <= health_threshold, with
\* health_percent = (health / max_health) * 100
ThresholdReached(b) ==
    b.health * 100 <= health_threshold(b.current_phase) * BossMaxHealth

\* update_phase that moves on only below the threshold
UpdatePhase_strict(b) ==
    IF b.current_phase = None THEN b
    ELSE LET current_index == Index(b.phases, b.current_phase) IN
         IF /\ b.health * 100 < health_threshold(b.current_phase) * BossMaxHealth
            /\ current_index < Len(b.phases) - 1
         THEN OnPhaseTransition(
                  [b EXCEPT !.active[b.current_phase] = FALSE,
                            !.current_phase = b.phases[current_index + 2],
                            !.active[b.phases[current_index + 2]] = TRUE])
         ELSE b

\* update_phase that jumps to the last phase of the list
UpdatePhase_skip(b) ==
    IF b.current_phase = None THEN b
    ELSE LET current_index == Index(b.phases, b.current_phase) IN
         IF ThresholdReached(b) /\ current_index < Len(b.phases) - 1
         THEN OnPhaseTransition(
                  [b EXCEPT !.active[b.current_phase] = FALSE,
                            !.current_phase = b.phases[Len(b.phases)],
                            !.active[b.phases[Len(b.phases)]] = TRUE])
         ELSE b

\* update_phase that leaves the old phase active
UpdatePhase_keep_active(b) ==
    IF b.current_phase = None THEN b
    ELSE LET current_index == Index(b.phases, b.current_phase) IN
         IF ThresholdReached(b) /\ current_index < Len(b.phases) - 1
         THEN OnPhaseTransition(
                  [b EXCEPT !.current_phase = b.phases[current_index + 2],
                            !.active[b.phases[current_index + 2]] = TRUE])
         ELSE b

\* update_phase that goes on to the phase the health calls for within one
\* call
RECURSIVE UpdatePhase_catch_up(_)
UpdatePhase_catch_up(b) ==
    IF b.current_phase = None THEN b
    ELSE LET current_index == Index(b.phases, b.current_phase) IN
         IF ThresholdReached(b) /\ current_index < Len(b.phases) - 1
         THEN UpdatePhase_catch_up(OnPhaseTransition(
                  [b EXCEPT !.active[b.current_phase] = FALSE,
                            !.current_phase = b.phases[current_index + 2],
                            !.active[b.phases[current_index + 2]] = TRUE]))
         ELSE b

\* update_phase; no phase of the game has a duration, so the phase timer
\* never runs
UpdatePhase(b) ==
    IF b.current_phase = None THEN b
    ELSE LET current_index == Index(b.phases, b.current_phase) IN
         IF ThresholdReached(b) /\ current_index < Len(b.phases) - 1
         THEN OnPhaseTransition(
                  [b EXCEPT !.active[b.current_phase] = FALSE,
                            !.current_phase = b.phases[current_index + 2],
                            !.active[b.phases[current_index + 2]] = TRUE])
         ELSE b

UpdateAbilities(b, current_time) ==
    [b EXCEPT !.ability_active =
        [a \in AbilityNames |->
            IF current_time - b.last_used[a] >= cooldown(a) THEN TRUE ELSE @[a]]]

\* what use_ability returns
UseAbilityValue(b, ability_name) ==
    ability_name \in AbilityNames /\ b.ability_active[ability_name]

\* use_ability that leaves the ability active
UseAbility_keep_active(b, ability_name, current_time) ==
    IF UseAbilityValue(b, ability_name)
    THEN [b EXCEPT !.last_used[ability_name] = current_time]
    ELSE b

UseAbility(b, ability_name, current_time) ==
    IF UseAbilityValue(b, ability_name)
    THEN [b EXCEPT !.last_used[ability_name] = current_time,
                   !.ability_active[ability_name] = FALSE]
    ELSE b

UpdateAttackPattern(b) ==
    IF Len(attack_patterns) = 0 THEN b
    ELSE LET timer == b.pattern_timer + 1 IN
         IF timer >= attack_patterns[b.current_pattern + 1].duration
         THEN [b EXCEPT !.current_pattern = (@ + 1) % Len(attack_patterns),
                        !.pattern_timer = 0]
         ELSE [b EXCEPT !.pattern_timer = timer]

IsAliveMinion(minion) == minion.is_alive

UpdateMinions(b) ==
    [b EXCEPT !.summoned_minions = SelectSeq(@, IsAliveMinion)]

EffectRuns(effect) == effect.duration > 0

RECURSIVE TickEffects(_)
TickEffects(effects) ==
    IF effects = <<>> THEN <<>>
    ELSE <<[Head(effects) EXCEPT !.duration = @ - 1]>> \o TickEffects(Tail(effects))

UpdateArenaEffects(b) ==
    [b EXCEPT !.arena_effects = TickEffects(SelectSeq(@, EffectRuns))]

\* Boss.update: TyranidSprite.update (animation only), then the five updates
BossUpdate(b, current_time) ==
    UpdateArenaEffects(UpdateMinions(UpdateAttackPattern(
        UpdateAbilities(UpdatePhase(b), current_time))))

\* the boss and its history are the only variables a Boss method changes
nonBossVars == <<nonEntityVars, health, combatVars, worldVars>>

\* history: the successive values of current_phase
TracePhase ==
    phase_trace' = IF boss'.current_phase # boss.current_phase
                   THEN Append(phase_trace, boss'.current_phase)
                   ELSE phase_trace

\* every add_phase of the game passes a BossPhase it has just built
add_phase(phase) ==
    /\ ~InList(boss.phases, phase)
    /\ boss' = AddPhase(boss, phase)
    /\ TracePhase
    /\ ret' = Call("add_phase", phase, None)
    /\ UNCHANGED nonBossVars

\* TyranidSprite.take_damage, which Boss inherits
boss_take_damage(amount) ==
    /\ boss' = [boss EXCEPT !.health = @ - amount]
    /\ TracePhase
    /\ ret' = Call("Boss.take_damage", amount, PyBool(boss'.health <= 0))
    /\ UNCHANGED nonBossVars

update_phase ==
    /\ boss' = UpdatePhase(boss)
    /\ TracePhase
    /\ ret' = Call("update_phase", None, None)
    /\ UNCHANGED nonBossVars

boss_update ==
    /\ boss' = BossUpdate(boss, clock)
    /\ TracePhase
    /\ ret' = Call("Boss.update", None, None)
    /\ UNCHANGED nonBossVars

update_abilities ==
    /\ boss' = UpdateAbilities(boss, clock)
    /\ TracePhase
    /\ ret' = Call("update_abilities", None, None)
    /\ UNCHANGED nonBossVars

use_ability(ability_name) ==
    /\ boss' = UseAbility(boss, ability_name, clock)
    /\ TracePhase
    /\ ret' = Call("use_ability", ability_name,
                   PyBool(UseAbilityValue(boss, ability_name)))
    /\ UNCHANGED nonBossVars

\* TyranidSprite.__init__ of a minion: a Gaunt, alive and at full health
NewMinion == [is_alive |-> TRUE, health |-> InitialHealth("gaunt")]

\* the caller of a summoning ability appends a minion
summon_minion ==
    /\ Len(boss.summoned_minions) < MaxMinions
    /\ boss' = [boss EXCEPT !.summoned_minions = Append(@, NewMinion)]
    /\ TracePhase
    /\ ret' = Call("summoned_minions.append", None, None)
    /\ UNCHANGED nonBossVars

\* TyranidSprite.take_damage on the i-th summoned minion
minion_take_damage(i, amount) ==
    /\ boss' = [boss EXCEPT !.summoned_minions[i].health = @ - amount]
    /\ TracePhase
    /\ ret' = Call("minion.take_damage", <<i, amount>>,
                   PyBool(boss'.summoned_minions[i].health <= 0))
    /\ UNCHANGED nonBossVars

\* the caller of an area ability appends a timed arena effect
add_arena_effect(duration) ==
    /\ Len(boss.arena_effects) < MaxEffects
    /\ boss' = [boss EXCEPT !.arena_effects = Append(@, [duration |-> duration])]
    /\ TracePhase
    /\ ret' = Call("arena_effects.append", duration, None)
    /\ UNCHANGED nonBossVars

\* time passes between two uses of an ability
tick_ability ==
    /\ clock + AbilityClockStep <= MaxAbilityClock
    /\ clock' = clock + AbilityClockStep
    /\ ret' = Call("get_ticks", None, clock')
    /\ UNCHANGED <<doorVars, activated_at, nonDoorVars>>

(***************************************************************************)
(* Game: the player walks, and SPACE activates a room transition           *)
(***************************************************************************)
\* ScoutMarine.move, over the frames of a straight walk that ends at (x, y):
\* each coordinate is taken only if the player stays on the screen, and the
\* player faces the way of the horizontal movement
walk_to(x, y) ==
    /\ scout_x' = IF x >= 0 /\ x + PlayerWidth <= ScreenWidth THEN x ELSE scout_x
    /\ scout_y' = IF y >= 0 /\ y + PlayerHeight <= ScreenHeight THEN y ELSE scout_y
    /\ scout' = [scout EXCEPT !.direction = IF x > scout_x THEN "right"
                                             ELSE IF x < scout_x THEN "left"
                                             ELSE @]
    /\ ret' = Call("move", None, None)
    /\ UNCHANGED <<is_visited, objective, mgrVars, roomVars, started, doorVars,
                   clock, activated_at, health, boss, phase_trace, worldVars, game,
                   enemy_pos>>

\* str.replace('_', ' ').title() of the room ids
Title(id) ==
    CASE id = "main_hall" -> "Main Hall"
      [] id = "armory" -> "Armory"
      [] id = "side_chamber" -> "Side Chamber"
      [] OTHER -> id

\* the loop over current_room.transitions that takes any unlocked door,
\* without asking can_activate
FirstActivatable_unchecked(ts) ==
    LET idx == {i \in 1..Len(ts) : ~is_locked[ts[i]]}
    IN  IF idx = {} THEN None
        ELSE ts[CHOOSE i \in idx : \A j \in idx : i <= j]

\* the loop over current_room.transitions: the first transition that
\* can_activate for the player's rectangle (activate() then succeeds and
\* the loop breaks), None when there is none
FirstActivatable(ts) ==
    LET idx == {i \in 1..Len(ts) :
                   CanActivateValue(ts[i], scout_x, scout_y, PlayerWidth,
                                    PlayerHeight)}
    IN  IF idx = {} THEN None
        ELSE ts[CHOOSE i \in idx : \A j \in idx : i <= j]

activate_room_transition ==
    LET current_room == get_current_room
        transition == IF current_room = None THEN None
                      ELSE FirstActivatable(Transitions(current_room))
    IN
    IF transition = None \/ ~Truthy(ActivateValue(transition))
    THEN /\ IF transition = None
            THEN UNCHANGED <<doorVars, activated_at>>
            ELSE ActivateBody(transition)
         /\ ret' = Call("activate_room_transition", None, None)
         /\ UNCHANGED <<mgrVars, started, gameVars, roomVars, clock, entityVars>>
    ELSE LET target == ActivateValue(transition)
             t == DoorRect(transition)
         IN
         /\ ActivateBody(transition)
         /\ TransitionToRoomBody(target, "fade")
         \* the player is placed on the opposite side of the new room
         /\ scout_x' = IF t.x <= 0 THEN ScreenWidth - PlayerWidth - 60
                       ELSE IF t.x >= ScreenWidth - t.width THEN 60
                       ELSE scout_x
         /\ scout_y' = IF t.y <= 0 THEN ScreenHeight - PlayerHeight - 60
                       ELSE IF t.y >= ScreenHeight - t.height THEN 60
                       ELSE scout_y
         /\ LET new_room == DictGet(rooms', current_room_id') IN
              IF new_room # None /\ ~is_visited[new_room]
              THEN /\ is_visited' = [is_visited EXCEPT ![new_room] = TRUE]
                   /\ objective' =
                        IF target = "side_chamber"
                        THEN "Clear the side chamber of Tyranid infestation"
                        ELSE IF target = "armory"
                        THEN "Speak with the Commissar in the armory"
                        ELSE objective
              ELSE UNCHANGED <<is_visited, objective>>
         /\ ret' = Call("activate_room_transition", transition,
                        [target |-> target,
                         accepted |-> TransitionToRoomValue(target),
                         message |-> <<"Entered", Title(target)>>])
         /\ UNCHANGED <<roomVars, clock, entityVars>>

(***************************************************************************)
(* ScoutMarine: shooting and melee (scout_marine.py), and the Game methods *)
(* that resolve them (main_game.py).  The boss pass of                     *)
(* check_bullet_collisions runs once spawn_boss has been called.           *)
(***************************************************************************)
\* ScoutMarine combat attributes
shot_cooldown == 500
bullet_damage == 20
bullet_speed == 10
bullet_radius == 5
attack_cooldown == 300
attack_range == 60
attack_damage == 25
Weapons == {"bolter", "plasma", "melta"}

\* the size of each enemy (Gaunt 30 x 30, Genestealer 40 x 40)
EnemyWidth(e) == IF e = "gaunt" THEN 30 ELSE 40
EnemyHeight(e) == IF e = "gaunt" THEN 30 ELSE 40

nonCombatVars == <<nonEntityVars, boss, phase_trace, worldVars>>

\* ScoutMarine.move: the direction follows the sign of dx
move(dx, dy) ==
    LET new_x == scout_x + dx
        new_y == scout_y + dy
    IN
    /\ scout_x' = IF new_x >= 0 /\ new_x + PlayerWidth <= ScreenWidth
                  THEN new_x ELSE scout_x
    /\ scout_y' = IF new_y >= 0 /\ new_y + PlayerHeight <= ScreenHeight
                  THEN new_y ELSE scout_y
    /\ scout' = [scout EXCEPT !.direction = IF dx > 0 THEN "right"
                                            ELSE IF dx < 0 THEN "left" ELSE @]
    /\ ret' = Call("move", <<dx, dy>>, None)
    /\ UNCHANGED <<is_visited, objective, mgrVars, roomVars, started, doorVars,
                   clock, activated_at, health, boss, phase_trace, worldVars, game,
                   enemy_pos>>

\* the player selects a weapon
set_weapon(weapon) ==
    /\ scout' = [scout EXCEPT !.current_weapon = weapon]
    /\ ret' = Call("current_weapon", weapon, None)
    /\ UNCHANGED <<health, game, enemy_pos, nonCombatVars>>

\* what shoot returns
ShootValue == clock - scout.last_shot_time > shot_cooldown

\* the bullet shoot creates; fired_with is history, the weapon selected when
\* the bullet was fired
NewBullet ==
    LET direction == IF scout.direction = "right" THEN 1 ELSE -1 IN
    [x |-> scout_x + PlayerWidth \div 2,
     y |-> scout_y + PlayerHeight \div 2,
     direction |-> direction,
     velocity |-> bullet_speed * direction,
     damage |-> Pts(bullet_damage),
     radius |-> bullet_radius,
     fired_with |-> scout.current_weapon]

shoot ==
    /\ scout' = IF ShootValue
                THEN [scout EXCEPT !.last_shot_time = clock,
                                   !.bullets = Append(@, NewBullet)]
                ELSE scout
    /\ ret' = Call("shoot", None, PyBool(ShootValue))
    /\ UNCHANGED <<health, game, enemy_pos, nonCombatVars>>

OnScreen(bullet) == ~(bullet.x < 0 \/ bullet.x > ScreenWidth)

RECURSIVE MoveBullets(_)
MoveBullets(bullets) ==
    IF bullets = <<>> THEN <<>>
    ELSE <<[Head(bullets) EXCEPT !.x = @ + Head(bullets).velocity]>>
             \o MoveBullets(Tail(bullets))

update_bullets ==
    /\ scout' = [scout EXCEPT !.bullets = SelectSeq(MoveBullets(@), OnScreen)]
    /\ ret' = Call("update_bullets", None, None)
    /\ UNCHANGED <<health, game, enemy_pos, nonCombatVars>>

\* calculate_weapon_damage with the multipliers of plasma and melta swapped
calculate_weapon_damage_swapped(bullet, current_weapon) ==
    LET base_damage == bullet.damage IN
    IF current_weapon = "bolter" THEN base_damage
    ELSE IF current_weapon = "plasma" THEN base_damage * 2
    ELSE IF current_weapon = "melta" THEN (base_damage * 3) \div 2
    ELSE base_damage

\* base_damage * 1.5 is (base_damage * 3) / 2, exact for the even base
calculate_weapon_damage(bullet, current_weapon) ==
    LET base_damage == bullet.damage IN
    IF current_weapon = "bolter" THEN base_damage
    ELSE IF current_weapon = "plasma" THEN (base_damage * 3) \div 2
    ELSE IF current_weapon = "melta" THEN base_damage * 2
    ELSE base_damage

\* pygame.Rect.colliderect
colliderect(a, b) ==
    /\ a.x < b.x + b.width
    /\ a.x + a.width > b.x
    /\ a.y < b.y + b.height
    /\ a.y + a.height > b.y

bullet_rect(bullet) ==
    [x |-> bullet.x - bullet.radius, y |-> bullet.y - bullet.radius,
     width |-> bullet.radius * 2, height |-> bullet.radius * 2]

enemy_rect(e) ==
    [x |-> enemy_pos[e][1], y |-> enemy_pos[e][2],
     width |-> EnemyWidth(e), height |-> EnemyHeight(e)]

\* the inner loop: the first enemy of the list the bullet collides with
FirstHit(bullet, enemy_list) ==
    LET idx == {i \in 1..Len(enemy_list) :
                   colliderect(bullet_rect(bullet), enemy_rect(enemy_list[i]))}
    IN  IF idx = {} THEN None
        ELSE enemy_list[CHOOSE i \in idx : \A j \in idx : i <= j]

\* the outer loop that leaves a bullet that hit in the list
RECURSIVE BulletLoop_keep_bullet(_, _, _)
BulletLoop_keep_bullet(todo, acc, enemy_list) ==
    IF todo = <<>> THEN acc
    ELSE LET bullet == Head(todo)
             enemy == FirstHit(bullet, enemy_list)
         IN  IF enemy = None
             THEN BulletLoop_keep_bullet(Tail(todo), acc, enemy_list)
             ELSE LET damage == calculate_weapon_damage(bullet,
                                                        scout.current_weapon)
                      left == acc.health[enemy] - damage
                  IN  BulletLoop_keep_bullet(Tail(todo),
                          [health |-> [acc.health EXCEPT ![enemy] = left],
                           hit_enemies |-> IF left <= 0
                                           THEN Append(acc.hit_enemies, enemy)
                                           ELSE acc.hit_enemies,
                           bullets |-> acc.bullets],
                          enemy_list)

\* ScoutMarine.check_bullet_collisions: the outer loop over a copy of the
\* bullets; acc holds the enemies' health, the player's bullets and the hit
\* list so far
RECURSIVE BulletLoop(_, _, _)
BulletLoop(todo, acc, enemy_list) ==
    IF todo = <<>> THEN acc
    ELSE LET bullet == Head(todo)
             enemy == FirstHit(bullet, enemy_list)
         IN  IF enemy = None
             THEN BulletLoop(Tail(todo), acc, enemy_list)
             ELSE LET damage == calculate_weapon_damage(bullet,
                                                        scout.current_weapon)
                      left == acc.health[enemy] - damage
                  IN  BulletLoop(Tail(todo),
                          [health |-> [acc.health EXCEPT ![enemy] = left],
                           hit_enemies |-> IF left <= 0
                                           THEN Append(acc.hit_enemies, enemy)
                                           ELSE acc.hit_enemies,
                           bullets |-> IF InList(acc.bullets, bullet)
                                       THEN ListRemove(acc.bullets, bullet)
                                       ELSE acc.bullets],
                          enemy_list)

CheckBulletCollisions(enemy_list) ==
    BulletLoop(scout.bullets,
               [health |-> health, hit_enemies |-> <<>>, bullets |-> scout.bullets],
               enemy_list)

\* a caller that leaves the enemies it has killed in the list
RemoveHit_keep(hit_enemies, g, hp) == g

\* the caller's loop over the hit list: g is the Game, hp the health after
\* the pass
RECURSIVE RemoveHit(_, _, _)
RemoveHit(hit_enemies, g, hp) ==
    IF hit_enemies = <<>> THEN g
    ELSE LET enemy == Head(hit_enemies) IN
         RemoveHit(Tail(hit_enemies),
                   IF InList(g.enemies, enemy) /\ hp[enemy] <= 0
                   THEN [g EXCEPT !.enemies = ListRemove(@, enemy),
                                  !.kills = @ + 1]
                   ELSE g,
                   hp)

\* the boss stands where spawn_boss built it, the middle of the screen
boss_rect ==
    [x |-> ScreenWidth \div 2, y |-> ScreenHeight \div 2,
     width |-> BossSize, height |-> BossSize]

\* ScoutMarine.check_bullet_collisions([boss]): acc holds the boss's health
\* (whole points, the damage being in quarter points), the number of hits
\* for which take_damage returned True, and the player's bullets
RECURSIVE BossBulletLoop(_, _)
BossBulletLoop(todo, acc) ==
    IF todo = <<>> THEN acc
    ELSE LET bullet == Head(todo) IN
         IF ~colliderect(bullet_rect(bullet), boss_rect)
         THEN BossBulletLoop(Tail(todo), acc)
         ELSE LET damage == calculate_weapon_damage(bullet, scout.current_weapon)
                  left == acc.health - damage \div 4
              IN  BossBulletLoop(Tail(todo),
                      [health |-> left,
                       boss_hits |-> IF left <= 0 THEN acc.boss_hits + 1
                                     ELSE acc.boss_hits,
                       bullets |-> IF InList(acc.bullets, bullet)
                                   THEN ListRemove(acc.bullets, bullet)
                                   ELSE acc.bullets])

\* Game.check_bullet_collisions: the pass over the enemies, then the pass
\* over the boss if there is one
check_bullet_collisions ==
    IF get_current_room = None
    THEN /\ ret' = Call("check_bullet_collisions", None, None)
         /\ UNCHANGED <<scout, health, game, enemy_pos, nonCombatVars>>
    ELSE LET pass == CheckBulletCollisions(game.enemies)
             after == RemoveHit(pass.hit_enemies, game, pass.health)
             with_boss == game.current_boss # None /\ game.boss_active
             boss_pass == IF with_boss
                          THEN BossBulletLoop(pass.bullets,
                                   [health |-> boss.health, boss_hits |-> 0,
                                    bullets |-> pass.bullets])
                          ELSE [health |-> boss.health, boss_hits |-> 0,
                                bullets |-> pass.bullets]
         IN
         /\ health' = pass.health
         /\ scout' = [scout EXCEPT !.bullets = boss_pass.bullets]
         /\ boss' = [boss EXCEPT !.health = boss_pass.health]
         /\ game' = IF boss_pass.boss_hits > 0 /\ boss_pass.health <= 0
                    THEN [after EXCEPT !.current_boss = None,
                                       !.boss_active = FALSE,
                                       !.game_won = TRUE]
                    ELSE after
         /\ ret' = Call("check_bullet_collisions", None, pass.hit_enemies)
         /\ UNCHANGED <<enemy_pos, phase_trace, nonEntityVars, worldVars>>

\* Game.spawn_enemy: create_tyranid builds the enemy at (x, y) and the game
\* appends it to its list
spawn_enemy(e, x, y) ==
    /\ enemy_pos[e] = <<>>
    /\ Len(game.enemies) < 10
    /\ enemy_pos' = [enemy_pos EXCEPT ![e] = <<x, y>>]
    /\ game' = [game EXCEPT !.enemies = Append(@, e)]
    /\ ret' = Call("spawn_enemy", e, None)
    /\ UNCHANGED <<scout, health, nonCombatVars>>

\* what melee_attack returns
MeleeAttackValue == clock - scout.last_attack_time > attack_cooldown

melee_attack ==
    /\ scout' = IF MeleeAttackValue
                THEN [scout EXCEPT !.is_attacking = TRUE,
                                   !.last_attack_time = clock]
                ELSE scout
    /\ ret' = Call("melee_attack", None, PyBool(MeleeAttackValue))
    /\ UNCHANGED <<health, game, enemy_pos, nonCombatVars>>

\* the attack state ends once attack_cooldown has passed (attack_frame, which
\* only picks the picture drawn, is left out)
update_attack_animation ==
    /\ scout' = IF scout.is_attacking
                   /\ clock - scout.last_attack_time > attack_cooldown
                THEN [scout EXCEPT !.is_attacking = FALSE]
                ELSE scout
    /\ ret' = Call("update_attack_animation", None, None)
    /\ UNCHANGED <<health, game, enemy_pos, nonCombatVars>>

Abs(n) == IF n < 0 THEN -n ELSE n

\* math.sqrt(dx*dx + dy*dy); the enemies stand where it is a whole number
Distance(dx, dy) ==
    CHOOSE r \in 0..(Abs(dx) + Abs(dy)) : r * r = dx * dx + dy * dy

\* enemy centre minus player centre
CentreDx(e) ==
    (enemy_pos[e][1] + EnemyWidth(e) \div 2) - (scout_x + PlayerWidth \div 2)
CentreDy(e) ==
    (enemy_pos[e][2] + EnemyHeight(e) \div 2) - (scout_y + PlayerHeight \div 2)

\* attack_damage * (1 - distance / attack_range), in quarter points; the
\* enemies stand at distances for which this is exact
MeleeDamage(distance) ==
    (Pts(attack_damage) * (attack_range - distance)) \div attack_range

InRange(e) == Distance(CentreDx(e), CentreDy(e)) < attack_range

\* a direction test that takes the enemies on either side of the player
InDirection_any(e) == CentreDx(e) # 0

InDirection(e) ==
    \/ CentreDx(e) > 0 /\ scout.direction = "right"
    \/ CentreDx(e) < 0 /\ scout.direction = "left"

\* the loop of check_enemy_collision: acc holds the enemies' health and the
\* list of the enemies that died
RECURSIVE MeleeLoop(_, _)
MeleeLoop(todo, acc) ==
    IF todo = <<>> THEN acc
    ELSE LET enemy == Head(todo) IN
         IF InRange(enemy) /\ InDirection(enemy)
         THEN LET distance == Distance(CentreDx(enemy), CentreDy(enemy))
                  actual_damage == MeleeDamage(distance)
                  left == acc.health[enemy] - actual_damage
              IN  MeleeLoop(Tail(todo),
                      [health |-> [acc.health EXCEPT ![enemy] = left],
                       damaged_enemies |-> IF left <= 0
                                           THEN Append(acc.damaged_enemies, enemy)
                                           ELSE acc.damaged_enemies])
         ELSE MeleeLoop(Tail(todo), acc)

\* ScoutMarine.check_enemy_collision
CheckEnemyCollision(enemy_list) ==
    IF ~scout.is_attacking
    THEN [health |-> health, damaged_enemies |-> <<>>]
    ELSE MeleeLoop(enemy_list, [health |-> health, damaged_enemies |-> <<>>])

\* the player's method called on the enemy list of room r
check_enemy_collision(r) ==
    LET pass == CheckEnemyCollision(enemies[r]) IN
    /\ health' = pass.health
    /\ ret' = Call("check_enemy_collision", r, pass.damaged_enemies)
    /\ UNCHANGED <<scout, game, enemy_pos, nonCombatVars>>

\* the loop of check_melee_attack over the enemies that died: room is the
\* enemy list of the current room
RECURSIVE RemoveSlain(_, _)
RemoveSlain(damaged_enemies, acc) ==
    IF damaged_enemies = <<>> THEN acc
    ELSE LET enemy == Head(damaged_enemies) IN
         RemoveSlain(Tail(damaged_enemies),
                     IF InList(acc.room, enemy)
                     THEN [room |-> ListRemove(acc.room, enemy),
                           kills |-> acc.kills + 1]
                     ELSE acc)

\* Game.check_melee_attack
check_melee_attack ==
    LET current_room == get_current_room IN
    IF ~scout.is_attacking \/ current_room = None
    THEN /\ ret' = Call("check_melee_attack", None, None)
         /\ UNCHANGED <<scout, health, game, enemy_pos, nonCombatVars>>
    ELSE LET pass == CheckEnemyCollision(enemies[current_room])
             after == RemoveSlain(pass.damaged_enemies,
                                  [room |-> enemies[current_room],
                                   kills |-> game.kills])
         IN
         /\ health' = pass.health
         /\ enemies' = [enemies EXCEPT ![current_room] = after.room]
         /\ game' = [game EXCEPT !.kills = after.kills]
         /\ ret' = Call("check_melee_attack", current_room, pass.damaged_enemies)
         /\ UNCHANGED <<scout, enemy_pos, boss, phase_trace, worldVars, is_cleared, mgrVars,
                        started, doorVars, clock, activated_at, gameVars>>

\* create_tyranid builds the enemy at (x, y) and Room.add_enemy puts it in
\* room r
place_enemy(r, e, x, y) ==
    /\ enemy_pos[e] = <<>>
    /\ enemy_pos' = [enemy_pos EXCEPT ![e] = <<x, y>>]
    /\ enemies' = [enemies EXCEPT ![r] = Append(@, e)]
    /\ ret' = Call("add_enemy", r, None)
    /\ UNCHANGED <<scout, health, game, boss, phase_trace, worldVars, is_cleared, mgrVars,
                   started, doorVars, clock, activated_at, gameVars>>

(***************************************************************************)
(* ScoutMarine.take_damage, and the Game methods for the enemies that      *)
(* touch the player, for the ammunition, the pause and the restart         *)
(***************************************************************************)
\* TyranidSprite.damage of the Gaunt and of the Genestealer
damage(e) == IF e = "gaunt" THEN 8 ELSE 15

\* min(amount * 0.01 * armor, amount * 0.8): amount is in tenths of a point,
\* the result in thousandths
DamageReduction(amount, armor) ==
    IF amount * armor <= amount * 80 THEN amount * armor ELSE amount * 80

\* a hit that may deal less than one point
ActualDamage_no_floor(amount, armor) ==
    amount * 100 - DamageReduction(amount, armor)

\* max(1, amount - damage_reduction), in thousandths
ActualDamage(amount, armor) ==
    LET reduced == amount * 100 - DamageReduction(amount, armor) IN
    IF reduced >= Milli(1) THEN reduced ELSE Milli(1)

\* ScoutMarine.take_damage on the player s: the player after the hit, and
\* what the call returns
PlayerTakeDamage(s, amount) ==
    LET left == s.health - ActualDamage(amount, s.armor) IN
    [scout |-> [s EXCEPT !.health = IF left <= 0 THEN 0 ELSE left],
     dead |-> left <= 0]

player_take_damage(amount) ==
    LET hit == PlayerTakeDamage(scout, amount) IN
    /\ scout' = hit.scout
    /\ ret' = Call("ScoutMarine.take_damage", amount, PyBool(hit.dead))
    /\ UNCHANGED <<health, game, enemy_pos, nonCombatVars>>

\* the player's armor is set
set_armor(armor) ==
    /\ scout' = [scout EXCEPT !.armor = armor]
    /\ ret' = Call("armor", armor, None)
    /\ UNCHANGED <<health, game, enemy_pos, nonCombatVars>>

\* the rectangle test of check_enemy_collisions
TouchesPlayer(e) ==
    /\ scout_x < enemy_pos[e][1] + EnemyWidth(e)
    /\ scout_x + PlayerWidth > enemy_pos[e][1]
    /\ scout_y < enemy_pos[e][2] + EnemyHeight(e)
    /\ scout_y + PlayerHeight > enemy_pos[e][2]

\* a loop that stops hurting the player at the first enemy that touches
RECURSIVE CollisionLoop_first_only(_, _)
CollisionLoop_first_only(todo, acc) ==
    IF todo = <<>> \/ acc.touching # <<>> THEN acc
    ELSE LET enemy == Head(todo) IN
         IF TouchesPlayer(enemy)
         THEN LET hit == PlayerTakeDamage(acc.scout, damage(enemy)) IN
              CollisionLoop_first_only(Tail(todo),
                  [scout |-> hit.scout,
                   game_over |-> acc.game_over \/ hit.dead,
                   touching |-> Append(acc.touching, enemy)])
         ELSE CollisionLoop_first_only(Tail(todo), acc)

\* the loop of check_enemy_collisions: acc holds the player, game_over and
\* the enemies found touching; enemy.damage * 0.1 points are damage(enemy)
\* tenths
RECURSIVE CollisionLoop(_, _)
CollisionLoop(todo, acc) ==
    IF todo = <<>> THEN acc
    ELSE LET enemy == Head(todo) IN
         IF TouchesPlayer(enemy)
         THEN LET hit == PlayerTakeDamage(acc.scout, damage(enemy)) IN
              CollisionLoop(Tail(todo),
                  [scout |-> hit.scout,
                   game_over |-> acc.game_over \/ hit.dead,
                   touching |-> Append(acc.touching, enemy)])
         ELSE CollisionLoop(Tail(todo), acc)

\* Game.check_enemy_collisions
check_enemy_collisions ==
    LET pass == CollisionLoop(game.enemies,
                    [scout |-> scout, game_over |-> game.game_over,
                     touching |-> <<>>])
    IN
    /\ scout' = pass.scout
    /\ game' = [game EXCEPT !.game_over = pass.game_over]
    /\ ret' = Call("check_enemy_collisions", None, pass.touching)
    /\ UNCHANGED <<health, enemy_pos, nonCombatVars>>

\* Game.shoot: no shot without ammo, and a shot fired costs one round
game_shoot ==
    /\ scout' = IF game.ammo > 0 /\ ShootValue
                THEN [scout EXCEPT !.last_shot_time = clock,
                                   !.bullets = Append(@, NewBullet)]
                ELSE scout
    /\ game' = IF game.ammo > 0 /\ ShootValue
               THEN [game EXCEPT !.ammo = @ - 1]
               ELSE game
    /\ ret' = Call("Game.shoot", None, PyBool(game.ammo > 0 /\ ShootValue))
    /\ UNCHANGED <<health, enemy_pos, nonCombatVars>>

\* Game.reload
reload ==
    /\ game' = IF game.ammo < max_ammo
               THEN [game EXCEPT !.ammo = max_ammo]
               ELSE game
    /\ ret' = Call("reload", None, PyBool(game.ammo < max_ammo))
    /\ UNCHANGED <<scout, health, enemy_pos, nonCombatVars>>

(***************************************************************************)
(* Pickups: AmmoCrate and PickupManager                                    *)
(***************************************************************************)
\* Pickup.lifetime and PickupManager.spawn_interval, max_pickups
lifetime == 30000
spawn_interval == 30000
max_pickups == 5
\* Pickup.width and height of an AmmoCrate
CrateSize == 40
\* ScoutMarine.max_bolter_ammo, max_plasma_ammo, max_melta_ammo
MaxAmmoOf(ammo_type) ==
    IF ammo_type = "bolter" THEN 120
    ELSE IF ammo_type = "plasma" THEN 30 ELSE 15

\* AmmoCrate(x, y, ammo_type, ammo_amount) built now; id tells the objects
\* apart
AmmoCrate(id, x, y, ammo_type, ammo_amount) ==
    [id |-> id, x |-> x, y |-> y, ammo_type |-> ammo_type,
     ammo_amount |-> ammo_amount, spawn_time |-> clock,
     active |-> TRUE, collected |-> FALSE]

\* Pickup.update: the pickup goes inactive once its lifetime is over
PickupUpdate(pickup) ==
    IF clock - pickup.spawn_time > lifetime
    THEN [pickup EXCEPT !.active = FALSE]
    ELSE pickup

\* the ammo AmmoCrate.collect adds for player s
AmmoAdded(pickup, s) ==
    LET space_left == MaxAmmoOf(pickup.ammo_type) - s.ammo[pickup.ammo_type]
    IN  IF space_left <= pickup.ammo_amount THEN space_left
        ELSE pickup.ammo_amount

\* collect that does not look at the collected flag
Collect_again(pickup, s) ==
    [pickup |-> [pickup EXCEPT !.collected = TRUE],
     scout |-> [s EXCEPT !.ammo[pickup.ammo_type] = @ + pickup.ammo_amount],
     val |-> TRUE]

\* AmmoCrate.collect: the crate and the player afterwards, and what it
\* returns
Collect(pickup, s) ==
    IF ~pickup.collected
    THEN [pickup |-> [pickup EXCEPT !.collected = TRUE],
          scout |-> [s EXCEPT !.ammo[pickup.ammo_type] =
                                   @ + AmmoAdded(pickup, s)],
          val |-> AmmoAdded(pickup, s) > 0]
    ELSE [pickup |-> pickup, scout |-> s, val |-> FALSE]

\* the loop of PickupManager.update over a copy of the list
RECURSIVE UpdatePickups(_)
UpdatePickups(pickups) ==
    IF pickups = <<>> THEN <<>>
    ELSE LET pickup == PickupUpdate(Head(pickups)) IN
         IF ~pickup.active THEN UpdatePickups(Tail(pickups))
         ELSE <<pickup>> \o UpdatePickups(Tail(pickups))

\* PickupManager.update; spawn_random_pickup draws the place, the type and
\* the amount of the crate
pickup_manager_update(x, y, ammo_type, ammo_amount) ==
    LET spawns == /\ clock - pickup_manager.spawn_timer > spawn_interval
                  /\ Len(pickup_manager.pickups) < max_pickups
        spawned == IF spawns
                   THEN Append(pickup_manager.pickups,
                               AmmoCrate(pickup_manager.spawned + 1, x, y,
                                         ammo_type, ammo_amount))
                   ELSE pickup_manager.pickups
    IN
    /\ pickup_manager' =
           [pickups |-> UpdatePickups(spawned),
            spawn_timer |-> IF spawns THEN clock
                            ELSE pickup_manager.spawn_timer,
            spawned |-> IF spawns THEN pickup_manager.spawned + 1
                        ELSE pickup_manager.spawned]
    /\ ret' = Call("PickupManager.update", None, None)
    /\ UNCHANGED <<nonEntityVars, health, boss, phase_trace, combatVars,
                   tyranid>>

\* the box test of PickupManager.check_collisions
NearPlayer(pickup) ==
    /\ Abs(scout_x - pickup.x) < (PlayerWidth + CrateSize) \div 2
    /\ Abs(scout_y - pickup.y) < (PlayerHeight + CrateSize) \div 2

\* the loop of PickupManager.check_collisions: done holds the pickups
\* already passed
RECURSIVE CollectLoop(_, _, _)
CollectLoop(done, todo, s) ==
    IF todo = <<>> THEN [pickups |-> done, scout |-> s, val |-> FALSE]
    ELSE LET pickup == Head(todo)
             got == Collect(pickup, s)
         IN  IF ~NearPlayer(pickup)
             THEN CollectLoop(Append(done, pickup), Tail(todo), s)
             ELSE IF got.val
             THEN [pickups |-> done \o Tail(todo), scout |-> got.scout,
                   val |-> TRUE]
             ELSE CollectLoop(Append(done, got.pickup), Tail(todo),
                              got.scout)

\* PickupManager.check_collisions(player)
pickup_check_collisions ==
    LET pass == CollectLoop(<<>>, pickup_manager.pickups, scout) IN
    /\ pickup_manager' = [pickup_manager EXCEPT !.pickups = pass.pickups]
    /\ scout' = pass.scout
    /\ ret' = Call("PickupManager.check_collisions", None, PyBool(pass.val))
    /\ UNCHANGED <<nonEntityVars, health, boss, phase_trace, game, enemy_pos,
                   tyranid>>

\* PickupManager.draw: Pickup.draw draws the pickups that are active; the
\* ids of the pickups drawn are the value
pickup_draw ==
    /\ ret' = Call("PickupManager.draw", None,
                   {pickup_manager.pickups[i].id :
                        i \in {j \in 1..Len(pickup_manager.pickups) :
                                   pickup_manager.pickups[j].active}})
    /\ UNCHANGED <<nonEntityVars, entityVars>>

\* time passes: ms milliseconds, up to the time until
wait(ms, until) ==
    /\ clock + ms <= until
    /\ clock' = clock + ms
    /\ ret' = Call("get_ticks", None, clock')
    /\ UNCHANGED <<doorVars, activated_at, nonDoorVars>>

(***************************************************************************)
(* TyranidSprite.can_attack and attack, and the special abilities of the   *)
(* Lictor, Zoanthrope, HiveTyrant, Harpy and Mawloc (tyranid_sprites.py)   *)
(***************************************************************************)
otherVars == <<nonEntityVars, health, boss, phase_trace, enemy_pos, game,
               pickup_manager>>

enemy_attack_range(e) == IF e = "gaunt" THEN 30 ELSE 40
enemy_attack_cooldown(e) == IF e = "gaunt" THEN 1000 ELSE 800

\* the value of can_attack: the distance is taken between the top-left
\* corners
CanAttackValue(e, player_x, player_y) ==
    LET dx == player_x - enemy_pos[e][1]
        dy == player_y - enemy_pos[e][2]
        cooldown_passed ==
            clock - tyranid.last_attack_time[e] > enemy_attack_cooldown(e)
    IN Distance(dx, dy) < enemy_attack_range(e) /\ cooldown_passed

can_attack(e, player_x, player_y) ==
    /\ enemy_pos[e] # <<>>
    /\ ret' = Call("can_attack", e, PyBool(CanAttackValue(e, player_x, player_y)))
    /\ UNCHANGED <<tyranid, scout, otherVars>>

\* TyranidSprite.attack(target): the two flags are set, nothing else is
\* done and nothing is returned
attack(e) ==
    /\ enemy_pos[e] # <<>>
    /\ tyranid' = [tyranid EXCEPT !.is_attacking[e] = TRUE,
                                  !.current_state[e] = "attacking"]
    /\ ret' = Call("attack", e, None)
    /\ UNCHANGED <<scout, otherVars>>

\* the cooldown attribute of each special ability
SpecialCooldown(a) ==
    CASE a = "lictor" -> 5000
      [] a = "zoanthrope" -> 8000
      [] a = "hive_tyrant" -> 3000
      [] a = "harpy" -> 5000
      [] a = "mawloc" -> 8000

\* the test every ability makes against its own timestamp
CooldownPassed(a) == clock - tyranid.last_trigger[a] > SpecialCooldown(a)

\* Lictor.try_stealth
try_stealth ==
    /\ tyranid' = IF CooldownPassed("lictor")
                  THEN [tyranid EXCEPT !.is_hidden = TRUE,
                                       !.last_trigger["lictor"] = clock]
                  ELSE tyranid
    /\ ret' = Call("try_stealth", None, PyBool(CooldownPassed("lictor")))
    /\ UNCHANGED <<scout, otherVars>>

\* Zoanthrope.psychic_blast by a Zoanthrope standing at (x, y): the
\* timestamp is reset whenever the cooldown has passed, and a player within
\* attack_range loses twice the damage of 15
psychic_blast(x, y, player_x, player_y) ==
    LET dist == Distance(player_x - x, player_y - y)
        hits == CooldownPassed("zoanthrope") /\ dist < 200
    IN
    /\ tyranid' = IF CooldownPassed("zoanthrope")
                  THEN [tyranid EXCEPT !.last_trigger["zoanthrope"] = clock]
                  ELSE tyranid
    /\ scout' = IF hits THEN [scout EXCEPT !.health = @ - Milli(15 * 2)]
                ELSE scout
    /\ ret' = Call("psychic_blast", <<x, y>>, IF hits THEN 15 * 2 ELSE 0)
    /\ UNCHANGED otherVars

\* Lictor.ambush_attack: a hidden Lictor shows itself and takes one and a
\* half times its damage of 25 from the player's health; a Lictor in the
\* open falls back on attack().  ret.val is the damage in tenths of a point.
ambush_attack ==
    /\ tyranid' = IF tyranid.is_hidden
                  THEN [tyranid EXCEPT !.is_hidden = FALSE]
                  ELSE [tyranid EXCEPT !.is_attacking["lictor"] = TRUE,
                                       !.current_state["lictor"] = "attacking"]
    /\ scout' = IF tyranid.is_hidden
                THEN [scout EXCEPT !.health = @ - (Milli(25) * 3) \div 2]
                ELSE scout
    /\ ret' = Call("ambush_attack", None,
                   IF tyranid.is_hidden THEN (10 * 25 * 3) \div 2 ELSE None)
    /\ UNCHANGED otherVars

\* Carnifex.ground_pound by a Carnifex standing at (x, y): within 100
\* pixels the player loses damage * (1 - distance/100), the damage being 30.
\* ret.val is the damage in tenths of a point.
ground_pound(x, y, player_x, player_y) ==
    LET distance == Distance(player_x - x, player_y - y) IN
    /\ scout' = IF distance < 100
                THEN [scout EXCEPT !.health = @ - (Milli(30) * (100 - distance)) \div 100]
                ELSE scout
    /\ ret' = Call("ground_pound", <<x, y>>,
                   IF distance < 100 THEN (10 * 30 * (100 - distance)) \div 100
                   ELSE 0)
    /\ UNCHANGED <<tyranid, otherVars>>

\* ScoutMarine.heal
heal(amount) ==
    /\ scout' = [scout EXCEPT !.health =
                    IF @ + Milli(amount) < Milli(player_max_health)
                    THEN @ + Milli(amount) ELSE Milli(player_max_health)]
    /\ ret' = Call("heal", amount, None)
    /\ UNCHANGED <<tyranid, otherVars>>

\* HiveTyrant.psychic_scream
psychic_scream ==
    /\ tyranid' = IF CooldownPassed("hive_tyrant")
                  THEN [tyranid EXCEPT !.last_trigger["hive_tyrant"] = clock]
                  ELSE tyranid
    /\ ret' = Call("psychic_scream", None, PyBool(CooldownPassed("hive_tyrant")))
    /\ UNCHANGED <<scout, otherVars>>

\* Harpy.swoop_attack
swoop_attack(player_x, player_y) ==
    /\ tyranid' = IF CooldownPassed("harpy")
                  THEN [tyranid EXCEPT !.last_trigger["harpy"] = clock,
                                       !.swoop_target = <<player_x, player_y>>,
                                       !.is_flying = FALSE]
                  ELSE tyranid
    /\ ret' = Call("swoop_attack", None, PyBool(CooldownPassed("harpy")))
    /\ UNCHANGED <<scout, otherVars>>

\* Mawloc.update: an emerged Mawloc burrows again once emergence_duration
\* is over, and only then is last_burrow_time set
mawloc_update ==
    /\ tyranid' = IF ~tyranid.is_burrowed
                     /\ clock - tyranid.emergence_time > 1000
                  THEN [tyranid EXCEPT !.is_burrowed = TRUE,
                                       !.last_trigger["mawloc"] = clock]
                  ELSE tyranid
    /\ ret' = Call("Mawloc.update", None, None)
    /\ UNCHANGED <<scout, otherVars>>

\* Mawloc.emerge: the test is made against last_burrow_time, which emerge
\* leaves as it is
emerge ==
    /\ tyranid' = IF CooldownPassed("mawloc")
                  THEN [tyranid EXCEPT !.is_burrowed = FALSE,
                                       !.emergence_time = clock]
                  ELSE tyranid
    /\ ret' = Call("emerge", None, PyBool(CooldownPassed("mawloc")))
    /\ UNCHANGED <<scout, otherVars>>

(***************************************************************************)
(* The factories create_tyranid, create_boss and create_pickup, and the    *)
(* Game methods that call them                                             *)
(***************************************************************************)
\* str.lower() on the type strings that are passed
Lower(s) ==
    CASE s = "Gaunt" -> "gaunt"
      [] s = "GENESTEALER" -> "genestealer"
      [] s = "Swarmlord" -> "swarmlord"
      [] s = "AMMO" -> "ammo"
      [] OTHER -> s

\* the keys of the three tables of classes
tyranid_classes ==
    {"genestealer", "warrior", "gaunt", "lictor", "carnifex", "zoanthrope",
     "mawloc"}
boss_classes == {"hive_tyrant", "swarmlord"}
pickup_classes == {"ammo"}

\* what each factory returns: the object, named by the key of its class
CreateTyranid(tyranid_type) ==
    IF Lower(tyranid_type) \in tyranid_classes THEN Lower(tyranid_type) ELSE None
CreateBoss(boss_type) ==
    IF Lower(boss_type) \in boss_classes THEN Lower(boss_type) ELSE None
CreatePickup(pickup_type) ==
    IF Lower(pickup_type) \in pickup_classes THEN Lower(pickup_type) ELSE None

create_tyranid(tyranid_type) ==
    /\ ret' = Call("create_tyranid", tyranid_type, CreateTyranid(tyranid_type))
    /\ UNCHANGED <<tyranid, scout, otherVars>>

create_boss(boss_type) ==
    /\ ret' = Call("create_boss", boss_type, CreateBoss(boss_type))
    /\ UNCHANGED <<tyranid, scout, otherVars>>

create_pickup(pickup_type) ==
    /\ ret' = Call("create_pickup", pickup_type, CreatePickup(pickup_type))
    /\ UNCHANGED <<tyranid, scout, otherVars>>

\* Game.spawn_enemy with the type and the place its random draws gave: the
\* enemy is appended when create_tyranid returned one
spawn_enemy_of(enemy_type, x, y) ==
    LET enemy == CreateTyranid(enemy_type) IN
    /\ enemy \in Entities => enemy_pos[enemy] = <<>>
    /\ IF Len(game.enemies) < 10 /\ enemy # None
       THEN /\ enemy_pos' = [enemy_pos EXCEPT ![enemy] = <<x, y>>]
            /\ game' = [game EXCEPT !.enemies = Append(@, enemy)]
       ELSE UNCHANGED <<enemy_pos, game>>
    /\ ret' = Call("spawn_enemy", enemy_type, None)
    /\ UNCHANGED <<scout, health, nonCombatVars>>

\* HiveTyrantBoss.__init__: Boss.__init__ and the three add_phase calls
HiveTyrantBoss ==
    [health |-> BossMaxHealth,
     phases |-> HiveTyrantPhases,
     current_phase |-> "Normal",
     active |-> [p \in PhaseObjs |-> p = "Normal"],
     enraged |-> FALSE,
     current_pattern |-> 0,
     pattern_timer |-> 0,
     summoned_minions |-> <<>>,
     arena_effects |-> <<>>,
     damage_multiplier |-> 1,
     speed |-> [num |-> BossSpeed, den |-> 1],
     last_used |-> [a \in AbilityNames |-> 0],
     ability_active |-> [a \in AbilityNames |-> FALSE]]

\* Game.spawn_boss: whatever create_boss returned is stored and the boss is
\* marked active (the call of set_current_room that follows is to a method
\* that room_system.py does not define, and is left out).  The boss record
\* follows a Hive Tyrant: it is built when create_boss returns one.
spawn_boss(boss_type) ==
    /\ game' = IF game.current_boss = None
               THEN [game EXCEPT !.current_boss = CreateBoss(boss_type),
                                 !.boss_active = TRUE]
               ELSE game
    /\ boss' = IF game.current_boss = None /\ CreateBoss(boss_type) = "hive_tyrant"
               THEN HiveTyrantBoss
               ELSE boss
    /\ phase_trace' = IF game.current_boss = None
                         /\ CreateBoss(boss_type) = "hive_tyrant"
                      THEN <<"Normal">>
                      ELSE phase_trace
    /\ ret' = Call("spawn_boss", boss_type, None)
    /\ UNCHANGED <<scout, health, enemy_pos, nonEntityVars, worldVars>>

(***************************************************************************)
(* Game.update and Game.handle_events: one frame of the game. The calls    *)
(* Game.update makes are taken one after the other, in its order; the last *)
(* call made (ret.op) is the position within the frame.                    *)
(***************************************************************************)
\* Game.spawn_interval
enemy_spawn_interval == 5000

\* Game.__init__, which restart() calls again: every object of the game is
\* built anew
GameInit ==
    /\ rooms' = [id \in RoomIds |-> RoomOf(id)]
    /\ current_room_id' = "main_hall"
    /\ transition_effect' = None
    /\ transition_progress' = 0
    /\ is_transitioning' = FALSE
    /\ next_room_id' = None
    /\ enemies' = [r \in RoomObjs |-> <<>>]
    /\ is_cleared' = [r \in RoomObjs |-> FALSE]
    /\ is_locked' = [d \in Doors |-> FALSE]
    /\ key_required' = [d \in Doors |-> None]
    /\ is_active' = [d \in Doors |-> TRUE]
    /\ last_activation_time' = [d \in Doors |-> 0]
    /\ scout_x' = ScreenWidth \div 2
    /\ scout_y' = ScreenHeight \div 2
    /\ is_visited' = [r \in RoomObjs |-> FALSE]
    /\ objective' = "Explore the gothic hall and eliminate Tyranid threats"
    /\ health' = [e \in Entities |-> InitialHealth(e)]
    /\ enemy_pos' = [e \in Entities |-> <<>>]
    /\ scout' = NewScoutMarine
    /\ game' = NewGame
    /\ tyranid' = NewTyranids
    /\ pickup_manager' = NewPickupManager
    /\ started' = [target |-> None, ticks |-> 0]
    /\ activated_at' = [d \in Doors |-> -1]
    /\ UNCHANGED <<clock, boss, phase_trace>>

\* the test that gates the keys of play, the movement and the shooting
Playing == ~game.game_over /\ ~game.game_paused /\ ~game.game_won

\* Game.handle_events with one event in the queue, or with the left mouse
\* button held ("mouse"), or with nothing
handle_events(event) ==
    /\ ret' = Call("handle_events", event, PyTrue)
    /\ CASE event = "K_r" /\ (game.game_over \/ game.game_won) ->
                \* restart(); reload() then finds the ammo full
                GameInit
         [] event = "K_r" /\ ~(game.game_over \/ game.game_won) /\ Playing ->
                /\ game' = IF game.ammo < max_ammo
                           THEN [game EXCEPT !.ammo = max_ammo]
                           ELSE game
                /\ UNCHANGED <<scout, health, enemy_pos, nonCombatVars>>
         [] event = "K_p" ->
                /\ game' = [game EXCEPT !.game_paused = ~@]
                /\ UNCHANGED <<scout, health, enemy_pos, nonCombatVars>>
         [] event = "K_v" /\ Playing ->
                /\ scout' = IF MeleeAttackValue
                            THEN [scout EXCEPT !.is_attacking = TRUE,
                                               !.last_attack_time = clock]
                            ELSE scout
                /\ UNCHANGED <<health, game, enemy_pos, nonCombatVars>>
         [] event = "mouse" /\ Playing ->
                /\ scout' = IF ShootValue
                            THEN [scout EXCEPT !.last_shot_time = clock,
                                               !.bullets = Append(@, NewBullet)]
                            ELSE scout
                /\ UNCHANGED <<health, game, enemy_pos, nonCombatVars>>
         [] OTHER ->
                UNCHANGED <<scout, health, game, enemy_pos, nonCombatVars>>

\* a Game.update that goes on while the game is over
ReturnsEarly_paused_only == game.game_paused

\* Game.update returns right after handle_events
ReturnsEarly == game.game_over \/ game.game_paused

\* the enemy loop of Game.update: every enemy of the list is updated (its
\* animation, which is not modelled), and removed if its health is spent;
\* ret.arg is the list of the enemies updated
update_enemies ==
    /\ game' = [game EXCEPT !.enemies = SelectSeq(@, LAMBDA e : ~(health[e] <= 0))]
    /\ ret' = Call("update_enemies", game.enemies, None)
    /\ UNCHANGED <<scout, health, enemy_pos, nonCombatVars>>

\* the boss block of Game.update: the boss is updated, and the game is won
\* when its health is spent
update_boss ==
    /\ IF game.current_boss # None
       THEN /\ boss' = BossUpdate(boss, clock)
            /\ TracePhase
            /\ game' = IF boss'.health <= 0
                       THEN [game EXCEPT !.current_boss = None,
                                         !.boss_active = FALSE,
                                         !.game_won = TRUE]
                       ELSE game
       ELSE UNCHANGED <<boss, phase_trace, game>>
    /\ ret' = Call("update_boss", None, None)
    /\ UNCHANGED <<scout, health, enemy_pos, nonEntityVars, worldVars>>

\* the timed spawn of Game.update, with the type and the place spawn_enemy
\* draws
timed_spawn(enemy_type, x, y) ==
    LET enemy == CreateTyranid(enemy_type)
        due == clock - game.spawn_timer > enemy_spawn_interval
        appends == due /\ Len(game.enemies) < 10 /\ enemy # None
    IN
    /\ enemy \in Entities => enemy_pos[enemy] = <<>>
    /\ enemy_pos' = IF appends THEN [enemy_pos EXCEPT ![enemy] = <<x, y>>]
                    ELSE enemy_pos
    /\ game' = [game EXCEPT
                   !.enemies = IF appends THEN Append(@, enemy) ELSE @,
                   !.spawn_timer = IF due THEN clock ELSE @]
    /\ ret' = Call("spawn", enemy_type, PyBool(due))
    /\ UNCHANGED <<scout, health, nonCombatVars>>

\* where Game.update stands: op was its last call, and it goes on
After(op) == ret.op = op /\ (op = "handle_events" => ~ReturnsEarly)

\* no Game.update is under way
Idle ==
    \/ ret.op \in {"init", "get_ticks", "ScoutMarine.take_damage", "add_enemy",
                   "PickupManager.check_collisions", "spawn_boss",
                   "Boss.take_damage"}
    \/ ret.op = "handle_events" /\ ReturnsEarly

(***************************************************************************)
(* Specification of the room manager and its rooms                         *)
(***************************************************************************)
Init ==
    /\ InitManager
    /\ InitRooms
    /\ InitDoors
    /\ clock = 0
    /\ InitGameVars
    /\ InitEntities
    /\ InitBoss
    /\ ret = Call("init", None, None)
    /\ started = [target |-> None, ticks |-> 0]
    /\ activated_at = [d \in Doors |-> -1]

AddRoom == \E id \in RoomIds : add_room(id, RoomOf(id))
TransitionToRoom == \E id \in TargetIds, e \in Effects : transition_to_room(id, e)
UpdateTransition == update_transition
Update == update
RoomUpdate == \E r \in RoomObjs : room_update(r)
AddEnemy == \E r \in RoomObjs, e \in Entities : add_enemy(r, e)
RemoveEnemy == \E r \in RoomObjs, e \in Entities : remove_enemy(r, e)

Next ==
    \/ AddRoom
    \/ TransitionToRoom
    \/ UpdateTransition
    \/ Update

Spec == Init /\ [][Next]_vars

(***************************************************************************)
(* Specification of the rooms and their enemy lists: the manager registers *)
(* rooms and updates the current one, and enemies come and go.             *)
(***************************************************************************)
NextRoom ==
    \/ AddRoom
    \/ Update
    \/ RoomUpdate
    \/ AddEnemy
    \/ RemoveEnemy

SpecRoom == Init /\ [][NextRoom]_vars


(***************************************************************************)
(* Specification of one RoomTransition called directly: any state of the   *)
(* is_active attribute, any order of lock, unlock, can_activate and        *)
(* activate, with time passing in between.                                 *)
(***************************************************************************)
InitTransition ==
    /\ InitManager
    /\ InitRooms
    /\ is_locked = [d \in Doors |-> FALSE]
    /\ key_required = [d \in Doors |-> None]
    /\ is_active \in [Doors -> BOOLEAN]
    /\ \A d \in Doors \ ApiDoors : is_active[d]
    /\ last_activation_time = [d \in Doors |-> 0]
    /\ clock = 0
    /\ InitGameVars
    /\ InitEntities
    /\ InitBoss
    /\ ret = Call("init", None, None)
    /\ started = [target |-> None, ticks |-> 0]
    /\ activated_at = [d \in Doors |-> -1]

Lock == \E d \in ApiDoors, k \in Keys : lock(d, k)
Unlock == \E d \in ApiDoors, k \in Keys : unlock(d, k)
CanActivate ==
    \E d \in ApiDoors, px \in ProbeXs, py \in ProbeYs :
        can_activate(d, px, py, PlayerWidth, PlayerHeight)
Activate == \E d \in ApiDoors : activate(d)
Tick == tick

NextTransition ==
    \/ Lock
    \/ Unlock
    \/ CanActivate
    \/ Activate
    \/ Tick

SpecTransition == InitTransition /\ [][NextTransition]_vars

(***************************************************************************)
(* Specification of enemies taking damage                                  *)
(***************************************************************************)
TakeDamage ==
    \E e \in Entities, amount \in Amounts :
        /\ health[e] > -Pts(MaxOverkill)
        /\ take_damage(e, Pts(amount))

NextEntity == TakeDamage

SpecEntity == Init /\ [][NextEntity]_vars

(***************************************************************************)
(* Specification of the game around the doors: setup_rooms has registered  *)
(* the rooms, the player walks about and presses SPACE, frames update the  *)
(* room manager, time passes, and the hall's east door is locked and       *)
(* unlocked.                                                               *)
(***************************************************************************)
InitGame ==
    /\ rooms = [id \in RoomIds |-> RoomOf(id)]
    /\ current_room_id = "main_hall"
    /\ transition_effect = None
    /\ transition_progress = 0
    /\ is_transitioning = FALSE
    /\ next_room_id = None
    /\ InitRooms
    /\ InitDoors
    /\ clock = 0
    /\ InitGameVars
    /\ InitEntities
    /\ InitBoss
    /\ ret = Call("init", None, None)
    /\ started = [target |-> None, ticks |-> 0]
    /\ activated_at = [d \in Doors |-> -1]

WalkTo == \E spot \in PlayerSpots : walk_to(spot[1], spot[2])
\* the hall's east door is locked without a key, and unlocked
LockDoor == lock("hall_east", None)
UnlockDoor == unlock("hall_east", None)
ActivateRoomTransition == activate_room_transition

NextGame ==
    \/ WalkTo
    \/ ActivateRoomTransition
    \/ Update
    \/ Tick
    \/ LockDoor
    \/ UnlockDoor

SpecGame == InitGame /\ [][NextGame]_vars

(***************************************************************************)
(* Specification of a boss fight: phases are added, the boss is hit, each  *)
(* frame updates it, and callers of its abilities add minions and effects. *)
(***************************************************************************)
AddPhaseStep == \E phase \in PhaseObjs : add_phase(phase)
BossTakeDamage ==
    \E amount \in BossAmounts :
        /\ boss.health > -MaxOverkill
        /\ boss_take_damage(amount)
AddArenaEffect == \E duration \in EffectDurations : add_arena_effect(duration)

NextBoss ==
    \/ AddPhaseStep
    \/ BossTakeDamage
    \/ update_phase
    \/ boss_update
    \/ summon_minion
    \/ AddArenaEffect

SpecBoss == Init /\ [][NextBoss]_vars

(***************************************************************************)
(* Specification of the boss's minions: minions are summoned, the player   *)
(* hits them, and each frame updates the boss.                             *)
(***************************************************************************)
MinionAmounts == {20, 30}

MinionTakeDamage ==
    \E i \in 1..Len(boss.summoned_minions), amount \in MinionAmounts :
        /\ boss.summoned_minions[i].health > -Pts(MaxOverkill)
        /\ minion_take_damage(i, Pts(amount))

NextMinions ==
    \/ summon_minion
    \/ MinionTakeDamage
    \/ boss_update

SpecMinions == Init /\ [][NextMinions]_vars

(***************************************************************************)
(* Specification of a boss worn down: a phase list in descending order of  *)
(* threshold is built, then the boss loses DrainIncrement health at a time *)
(* and is updated after each loss, until its health is gone.               *)
(***************************************************************************)
AddPhaseDescending ==
    \E phase \in PhaseObjs :
        /\ ret.op \in {"init", "add_phase"}
        /\ \A i \in 1..Len(boss.phases) :
              health_threshold(boss.phases[i]) > health_threshold(phase)
        /\ add_phase(phase)
DrainDamage ==
    /\ Len(boss.phases) > 0
    /\ ret.op # "Boss.take_damage"
    /\ boss.health > 0
    /\ boss_take_damage(DrainIncrement)
DrainUpdate ==
    /\ ret.op = "Boss.take_damage"
    /\ boss_update

NextDrain ==
    \/ AddPhaseDescending
    \/ DrainDamage
    \/ DrainUpdate

SpecDrain == Init /\ [][NextDrain]_vars

(***************************************************************************)
(* Specification of the boss's abilities: frames update the abilities,     *)
(* callers try to use them, and time passes.                               *)
(***************************************************************************)
UseAbilityStep == \E a \in AbilityNames \cup {UnknownAbility} : use_ability(a)

NextAbility ==
    \/ update_abilities
    \/ UseAbilityStep
    \/ boss_update
    \/ tick_ability

SpecAbility == Init /\ [][NextAbility]_vars

(***************************************************************************)
(* Specification of a firefight in the main hall: the player walks to the  *)
(* firing spot, picks a weapon and shoots; enemies spawn; frames move the  *)
(* bullets and resolve their collisions; time passes.                      *)
(***************************************************************************)
\* where the player shoots from
FiringSpot == <<730, 300>>
\* where enemies spawn: in the line of fire, and out of it
SpawnSpots == {<<750, 320>>, <<750, 100>>}

WalkToFiringSpot == walk_to(FiringSpot[1], FiringSpot[2])
SpawnEnemy ==
    \E e \in Entities, spot \in SpawnSpots : spawn_enemy(e, spot[1], spot[2])
SelectWeapon == \E weapon \in Weapons : set_weapon(weapon)
PlayerShoot ==
    /\ scout_x = FiringSpot[1]
    /\ Len(scout.bullets) < MaxBullets
    /\ shoot
\* time passes while the shot cooldown runs
WaitForShot == ~ShootValue /\ tick

NextBullets ==
    \/ WalkToFiringSpot
    \/ SpawnEnemy
    \/ SelectWeapon
    \/ PlayerShoot
    \/ update_bullets
    \/ check_bullet_collisions
    \/ WaitForShot

SpecBullets == InitGame /\ [][NextBullets]_vars

(***************************************************************************)
(* Specification of a melee in the main hall: enemies are put in the room  *)
(* around the player's starting place, the player steps left and right,    *)
(* strikes, and frames resolve the strike; time passes.                    *)
(***************************************************************************)
\* where the centre of an enemy is put, as the horizontal offset from the
\* centre of the player's starting place: on the player, in front at half
\* range and at full range (the Gaunt); in front at three quarters of the
\* range, and behind, which is in front at half range once the player has
\* stepped to the left (the Genestealer)
MeleeOffsets(e) == IF e = "gaunt" THEN {0, 30, 60} ELSE {45, -15}
\* the length of the player's steps to the left and back
StepLength == 15

PlaceEnemy ==
    \E e \in Entities : \E offset \in MeleeOffsets(e) :
        place_enemy(RoomOf("main_hall"), e,
                    ScreenWidth \div 2 + PlayerWidth \div 2 + offset
                        - EnemyWidth(e) \div 2,
                    ScreenHeight \div 2 + PlayerHeight \div 2
                        - EnemyHeight(e) \div 2)
StepLeft == scout_x = ScreenWidth \div 2 /\ move(-StepLength, 0)
StepRight == scout_x = ScreenWidth \div 2 - StepLength /\ move(StepLength, 0)
PlayerStrikes ==
    /\ \A e \in Entities : health[e] > -Pts(MaxOverkill)
    /\ check_enemy_collision(RoomOf("main_hall"))
\* time passes while the next attack has to wait
WaitForAttack == ~MeleeAttackValue /\ clock < MaxMeleeClock /\ tick

NextMelee ==
    \/ PlaceEnemy
    \/ StepLeft
    \/ StepRight
    \/ melee_attack
    \/ update_attack_animation
    \/ PlayerStrikes
    \/ check_melee_attack
    \/ WaitForAttack

SpecMelee == InitGame /\ [][NextMelee]_vars

(***************************************************************************)
(* Specification of the player being hit: take_damage is called with any   *)
(* amount, under any armor.                                                *)
(***************************************************************************)
\* the armor values tried: the player's own 20, just under the cap, at the
\* cap and the maximum
Armors == {20, 79, 80, 100}
\* the amounts tried, in tenths of a point: 0, 50 and 100 points
PlayerAmounts == {0, 500, 1000}

SetArmor == \E armor \in Armors : set_armor(armor)
PlayerHit == \E amount \in PlayerAmounts : player_take_damage(amount)

NextPlayer ==
    \/ SetArmor
    \/ PlayerHit

SpecPlayer == InitGame /\ [][NextPlayer]_vars

(***************************************************************************)
(* Specification of the pickups: the manager is updated, which spawns ammo *)
(* crates and drops the expired ones, the player standing still collects   *)
(* what lies on him, the pickups are drawn, and time passes.               *)
(***************************************************************************)
CrateSpots == {<<ScreenWidth \div 2, ScreenHeight \div 2>>, <<50, 50>>}
CrateTypes == {"bolter", "plasma"}
CrateAmounts == {50, 100}

PickupManagerUpdate ==
    \E spot \in CrateSpots, ammo_type \in CrateTypes,
       ammo_amount \in CrateAmounts :
        pickup_manager_update(spot[1], spot[2], ammo_type, ammo_amount)
PickupTime == wait(PickupClockStep, MaxPickupClock)

NextPickups ==
    \/ PickupManagerUpdate
    \/ pickup_check_collisions
    \/ pickup_draw
    \/ PickupTime

SpecPickups == InitGame /\ [][NextPickups]_vars

(***************************************************************************)
(* Specification of enemies attacking: enemies are built next to the       *)
(* player or away from it, can_attack is asked and attack is called, at    *)
(* any time                                                                *)
(***************************************************************************)
\* 20 and 100 pixels below the player's start position
TyranidSpots == {<<400, 320>>, <<400, 400>>}

BuildTyranid ==
    \E e \in Entities : \E spot \in TyranidSpots : spawn_enemy(e, spot[1], spot[2])
CanAttack == \E e \in Entities : can_attack(e, scout_x, scout_y)
Attack == \E e \in Entities : attack(e)
AttackTime == wait(AttackClockStep, MaxAttackClock)

NextAttack ==
    \/ BuildTyranid
    \/ CanAttack
    \/ Attack
    \/ AttackTime

SpecAttack == InitGame /\ [][NextAttack]_vars

(***************************************************************************)
(* Specification of the special abilities: each is tried at any time, the  *)
(* Mawloc is updated at any time                                           *)
(***************************************************************************)
\* where the Zoanthrope stands: 150 pixels above the player, 300 below
ZoanthropeSpots == {<<400, 150>>, <<400, 600>>}

PsychicBlast ==
    \E spot \in ZoanthropeSpots : psychic_blast(spot[1], spot[2], scout_x, scout_y)
SwoopAttack == swoop_attack(scout_x, scout_y)
SpecialTime == wait(SpecialClockStep, MaxSpecialClock)

NextSpecials ==
    \/ try_stealth
    \/ PsychicBlast
    \/ psychic_scream
    \/ SwoopAttack
    \/ mawloc_update
    \/ emerge
    \/ SpecialTime

SpecSpecials == InitGame /\ [][NextSpecials]_vars

(***************************************************************************)
(* Specification of the player's health: the player is hit and healed, a   *)
(* Lictor hides and ambushes, a Carnifex pounds the ground, a Zoanthrope   *)
(* blasts, and time passes.                                                *)
(***************************************************************************)
\* where the Carnifex stands: on the player, 50 pixels away, 100 pixels away
CarnifexSpots == {<<400, 300>>, <<430, 340>>, <<500, 300>>}
\* the points healed, and the hits taken in tenths of a point
HealAmounts == {50}
HurtAmounts == {300}
\* the abilities are not used on a player this far below 0
Hurtable == scout.health > -Milli(MaxOverkill)

HealthHit ==
    \E amount \in HurtAmounts : scout.health > 0 /\ player_take_damage(amount)
Heal == \E amount \in HealAmounts : heal(amount)
AmbushAttack == Hurtable /\ ambush_attack
GroundPound ==
    \E spot \in CarnifexSpots :
        Hurtable /\ ground_pound(spot[1], spot[2], scout_x, scout_y)
HealthBlast == Hurtable /\ PsychicBlast

NextHealth ==
    \/ HealthHit
    \/ Heal
    \/ try_stealth
    \/ AmbushAttack
    \/ GroundPound
    \/ HealthBlast
    \/ SpecialTime

SpecHealth == InitGame /\ [][NextHealth]_vars

(***************************************************************************)
(* Specification of the factories and the spawning of enemies and bosses:  *)
(* each factory is called with known and unknown type strings, in either   *)
(* case of letters, and the game spawns enemies and a boss                 *)
(***************************************************************************)
\* types spawn_enemy draws that the model has an object for, and the two the
\* table of classes lacks
EnemyTypes == {"gaunt", "genestealer", "hive_tyrant", "harpy"}
TypeStrings ==
    {"gaunt", "Gaunt", "GENESTEALER", "hive_tyrant", "harpy", "Swarmlord",
     "ammo", "AMMO", "health", ""}
BossTypes == {"hive_tyrant", "Swarmlord", "carnifex"}

CreateTyranidCall == \E t \in TypeStrings : create_tyranid(t)
CreateBossCall == \E t \in TypeStrings : create_boss(t)
CreatePickupCall == \E t \in TypeStrings : create_pickup(t)
SpawnEnemyOf ==
    \E t \in EnemyTypes, spot \in SpawnSpots : spawn_enemy_of(t, spot[1], spot[2])
SpawnBoss == \E t \in BossTypes : spawn_boss(t)

NextFactories ==
    \/ CreateTyranidCall
    \/ CreateBossCall
    \/ CreatePickupCall
    \/ SpawnEnemyOf
    \/ SpawnBoss

SpecFactories == InitGame /\ [][NextFactories]_vars

(***************************************************************************)
(* Specification of the ammunition: at the firing spot the player shoots   *)
(* through Game.shoot or with the mouse button, which handle_events passes *)
(* to ScoutMarine.shoot, and reloads; bullets fly off the screen           *)
(***************************************************************************)
GameShoot ==
    /\ scout_x = FiringSpot[1]
    /\ Len(scout.bullets) < MaxBullets
    /\ game_shoot
WaitForNextShot == ~ShootValue /\ wait(ShotClockStep, MaxShotClock)

NextAmmo ==
    \/ WalkToFiringSpot
    \/ PlayerShoot
    \/ GameShoot
    \/ reload
    \/ update_bullets
    \/ WaitForNextShot

SpecAmmo == InitGame /\ [][NextAmmo]_vars

(***************************************************************************)
(* Specification of the frames of the game: time passes, and Game.update   *)
(* runs with one input; before the first frame enemies are put in the main *)
(* hall, and the player has lost most of its health to earlier hits        *)
(***************************************************************************)
Events == {"none", "K_v", "K_r", "K_p", "mouse"}
\* types spawn_enemy draws: two the model has an object for, one that
\* create_tyranid does not know
FrameTypes == {"gaunt", "genestealer", "hive_tyrant"}
\* where the enemies appear: on the player, and to its right in the line of
\* fire
FrameSpots == {<<400, 300>>, <<460, 320>>}
\* the damage of earlier hits, in tenths of a point
EarlierHits == {1225}

FrameTime == Idle /\ wait(FrameClockStep, MaxFrameClock)
EarlierHit ==
    /\ clock = 0
    /\ \E amount \in EarlierHits :
           /\ ~PlayerTakeDamage(scout, amount).dead
           /\ player_take_damage(amount)
RoomEnemy == clock = 0 /\ PlaceEnemy
HandleEvents ==
    /\ ret.op = "get_ticks"
    /\ \E event \in Events : handle_events(event)
FrameRooms == After("handle_events") /\ update
FrameBullets == After("update") /\ update_bullets
FrameAnimation == After("update_bullets") /\ update_attack_animation
FrameEnemies == After("update_attack_animation") /\ update_enemies
FrameBoss == After("update_enemies") /\ update_boss
FrameSpawn ==
    /\ After("update_boss")
    /\ \E t \in FrameTypes, spot \in FrameSpots : timed_spawn(t, spot[1], spot[2])
FramePickups ==
    /\ After("spawn")
    /\ pickup_manager_update(ScreenWidth \div 2, ScreenHeight \div 2, "bolter", 50)
FrameBulletHits == After("PickupManager.update") /\ check_bullet_collisions
FrameMelee == After("check_bullet_collisions") /\ check_melee_attack
FrameTouch == After("check_melee_attack") /\ check_enemy_collisions
FrameCollect == After("check_enemy_collisions") /\ pickup_check_collisions

NextFrame ==
    \/ FrameTime
    \/ EarlierHit
    \/ RoomEnemy
    \/ HandleEvents
    \/ FrameRooms
    \/ FrameBullets
    \/ FrameAnimation
    \/ FrameEnemies
    \/ FrameBoss
    \/ FrameSpawn
    \/ FramePickups
    \/ FrameBulletHits
    \/ FrameMelee
    \/ FrameTouch
    \/ FrameCollect

SpecFrame == InitGame /\ [][NextFrame]_vars

(***************************************************************************)
(* Specification of the end of a game: before the first frame a Hive       *)
(* Tyrant boss is spawned and worn down, and the player has lost most of   *)
(* its health; then the frames run with the mouse button held or not, or   *)
(* with the R key pressed.                                                 *)
(***************************************************************************)
EndingEvents == {"none", "mouse", "K_r"}
\* the damage the boss took before the first frame
EarlierBossHits == {980}

SpawnTheBoss == clock = 0 /\ ret.op = "init" /\ spawn_boss("hive_tyrant")
WearBossDown ==
    /\ clock = 0
    /\ ret.op = "spawn_boss"
    /\ \E amount \in EarlierBossHits : boss_take_damage(amount)
EndingEarlierHit == ret.op # "ScoutMarine.take_damage" /\ EarlierHit
EndingEvent ==
    /\ ret.op = "get_ticks"
    /\ \E event \in EndingEvents : handle_events(event)

NextEndings ==
    \/ FrameTime
    \/ SpawnTheBoss
    \/ WearBossDown
    \/ EndingEarlierHit
    \/ EndingEvent
    \/ FrameRooms
    \/ FrameBullets
    \/ FrameAnimation
    \/ FrameEnemies
    \/ FrameBoss
    \/ FrameSpawn
    \/ FramePickups
    \/ FrameBulletHits
    \/ FrameMelee
    \/ FrameTouch
    \/ FrameCollect

SpecEndings == InitGame /\ [][NextEndings]_vars

(***************************************************************************)
(* Properties of the room manager                                          *)
(***************************************************************************)
\* a step that is a call of op (every call records itself in ret)
Called(op) == ret'.op = op

\* C1: transition_to_room(id, effect) returns False and leaves
\* current_room_id, next_room_id, transition_effect, transition_progress and
\* is_transitioning unchanged when id is not registered or a transition is in
\* progress; otherwise it returns True and enters Transitioning with
\* next_room_id = id and progress 0.
C1_TransitionToRoomContract ==
    [][Called("transition_to_room") =>
        IF ret'.arg \notin DOMAIN rooms \/ is_transitioning
        THEN /\ ret'.val = PyFalse
             /\ UNCHANGED <<current_room_id, next_room_id, transition_effect,
                            transition_progress, is_transitioning>>
        ELSE /\ ret'.val = PyTrue
             /\ is_transitioning'
             /\ next_room_id' = ret'.arg
             /\ transition_progress' = 0]_vars

\* a request for a registered room was dropped while another was under way
C1_Witness ==
    /\ ret.op = "transition_to_room"
    /\ ret.val = PyFalse
    /\ ret.arg \in DOMAIN rooms
    /\ is_transitioning
    /\ next_room_id # ret.arg
    /\ transition_progress > 0

\* C2: at most one transition is in progress (the pending target is the one
\* accepted last and no request is accepted while it is pending); while
\* is_transitioning holds get_current_room keeps returning the room that was
\* current when the transition started; and the update_transition step on
\* which progress reaches 1 makes the pending id current and clears
\* next_room_id, is_transitioning and progress in that same step.
C2_SingleTransitionAtomicSwap ==
    /\ [](is_transitioning <=> next_room_id # None)
    /\ [](is_transitioning => next_room_id = started.target)
    /\ [][is_transitioning =>
            ~(Called("transition_to_room") /\ ret'.val = PyTrue)]_vars
    /\ [][is_transitioning' =>
            /\ current_room_id' = current_room_id
            /\ get_current_room' = get_current_room]_vars
    /\ [][(/\ Called("update_transition") \/ Called("update")
           /\ is_transitioning
           /\ transition_progress + TransitionSpeed >= ProgressOne) =>
            /\ current_room_id' = next_room_id
            /\ next_room_id' = None
            /\ ~is_transitioning'
            /\ transition_progress' = 0]_vars
    /\ [][current_room_id' # current_room_id /\ current_room_id # None =>
            /\ is_transitioning
            /\ current_room_id' = next_room_id
            /\ ~is_transitioning'
            /\ next_room_id' = None]_vars

\* a transition between two different rooms is under way: the old room is
\* still the current one
C2_Witness ==
    /\ is_transitioning
    /\ transition_progress + TransitionSpeed >= ProgressOne
    /\ next_room_id # current_room_id
    /\ get_current_room = RoomOf(current_room_id)

\* C3: a started transition runs to completion: while it is pending no
\* operation cancels or retargets it, and once TicksToComplete (20)
\* update_transition calls have been made since transition_to_room(T) was
\* accepted the manager is Idle and get_current_room() is room T.
C3_RunsToCompletion ==
    /\ is_transitioning =>
          /\ next_room_id = started.target
          /\ started.ticks < TicksToComplete
          /\ transition_progress = started.ticks * TransitionSpeed
    /\ (started.target # None /\ started.ticks >= TicksToComplete) =>
          /\ ~is_transitioning
          /\ current_room_id = started.target
          /\ get_current_room = RoomOf(started.target)
    /\ (started.target # None /\ started.ticks < TicksToComplete) =>
          is_transitioning

\* the 20th call has just completed a transition to another room
C3_Witness ==
    /\ started.ticks = TicksToComplete
    /\ started.target = "armory"
    /\ get_current_room = RoomOf("armory")
    /\ ~is_transitioning
    /\ ret.op = "update_transition"

(***************************************************************************)
(* Properties of RoomTransition                                            *)
(***************************************************************************)
Max(a, b) == IF a >= b THEN a ELSE b
Min(a, b) == IF a <= b THEN a ELSE b

\* two axis-aligned rectangles share interior points
RectsIntersect(r1, r2) ==
    /\ Max(r1.x, r2.x) < Min(r1.x + r1.width, r2.x + r2.width)
    /\ Max(r1.y, r2.y) < Min(r1.y + r1.height, r2.y + r2.height)

PlayerRect(px, py) ==
    [x |-> px, y |-> py, width |-> PlayerWidth, height |-> PlayerHeight]

\* more than activation_cooldown milliseconds have passed since the stamp
CooldownElapsed(d) == clock - last_activation_time[d] > ActivationCooldown

\* C4: an activation succeeds (activate() returns the target room id and
\* stamps last_activation_time) only if at that moment the transition is
\* unlocked, its trigger rectangle overlaps the player's rectangle and the
\* cooldown has elapsed since the last activation.
C4_ActivationGuarded ==
    [][\A d \in Doors :
        (\/ last_activation_time'[d] # last_activation_time[d]
         \/ activated_at'[d] # activated_at[d]
         \/ (Called("activate_room_transition") /\ ret'.arg = d)) =>
            /\ Called("activate_room_transition")
            /\ ret'.arg = d
            /\ ret'.val.target = target_room(d)
            /\ last_activation_time'[d] = clock
            /\ ~is_locked[d]
            /\ RectsIntersect(PlayerRect(scout_x, scout_y), DoorRect(d))
            /\ CooldownElapsed(d)]_vars

\* the player went through the hall's door, came back through the armory's
\* and has activated the hall's door once more
C4_Witness ==
    /\ ret.op = "activate_room_transition"
    /\ ret.arg = "hall_east"
    /\ activated_at["armory_west"] # -1
    /\ activated_at["hall_east"] = clock

\* C5: right after a successful activate() at time t can_activate is false
\* for every player rectangle, and it is true again only at a time
\* >= t + activation_cooldown and only for a rectangle that overlaps the
\* trigger zone.
C5_CooldownAfterActivate ==
    \A d \in ApiDoors :
        /\ (ret.op = "activate" /\ ret.arg = d /\ Truthy(ret.val)) =>
              \A px \in ProbeXs, py \in ProbeYs :
                  ~CanActivateValue(d, px, py, PlayerWidth, PlayerHeight)
        /\ activated_at[d] # -1 =>
              \A px \in ProbeXs, py \in ProbeYs :
                  CanActivateValue(d, px, py, PlayerWidth, PlayerHeight) =>
                      /\ clock >= activated_at[d] + ActivationCooldown
                      /\ RectsIntersect(PlayerRect(px, py), DoorRect(d))

\* after an activation the door could be activated again
C5_Witness ==
    /\ ret.op = "can_activate"
    /\ ret.val = PyTrue
    /\ activated_at[ret.arg[1]] > 0

C7_ActivateContract ==
    [][Called("activate") =>
        LET d == ret'.arg IN
        IF is_locked[d]
        THEN /\ ~Truthy(ret'.val)
             /\ UNCHANGED doorVars
        ELSE /\ last_activation_time'[d] = clock
             /\ ret'.val = target_room(d)
             /\ Truthy(ret'.val)
             /\ UNCHANGED <<is_locked, key_required, is_active>>]_vars

\* activate() was refused on a locked door, and the old stamp is still there
C7_Witness ==
    /\ ret.op = "activate"
    /\ ret.val = PyFalse
    /\ is_locked[ret.arg]
    /\ last_activation_time[ret.arg] > 0
    /\ last_activation_time[ret.arg] < clock

\* C8: after lock(k) the door is locked with key k; unlock(k') on a locked
\* door returns True and clears is_locked only if k is None or k' = k, a
\* wrong key returns False and leaves the door locked with the same key; in
\* any sequence of calls a door locked with a non-null key is opened only by
\* an unlock that supplies that key.
C8_UnlockNeedsKey ==
    [][\A d \in Doors :
        /\ (Called("lock") /\ ret'.arg[1] = d) =>
              is_locked'[d] /\ key_required'[d] = ret'.arg[2]
        /\ (Called("unlock") /\ ret'.arg[1] = d /\ is_locked[d]) =>
              IF key_required[d] = None \/ key_required[d] = ret'.arg[2]
              THEN ret'.val = PyTrue /\ ~is_locked'[d]
              ELSE /\ ret'.val = PyFalse
                   /\ is_locked'[d]
                   /\ key_required'[d] = key_required[d]
        /\ (is_locked[d] /\ ~is_locked'[d]) =>
              /\ Called("unlock")
              /\ ret'.arg[1] = d
              /\ ret'.val = PyTrue
              /\ key_required[d] # None => ret'.arg[2] = key_required[d]]_vars

\* an unlock with the wrong key was refused
C8_Witness ==
    /\ ret.op = "unlock"
    /\ ret.val = PyFalse
    /\ is_locked[ret.arg[1]]
    /\ key_required[ret.arg[1]] = "red_key"
    /\ ret.arg[2] = "blue_key"


(***************************************************************************)
(* Properties of the rooms                                                 *)
(***************************************************************************)
\* the step ran Room.update on room r, directly or through the manager
RoomUpdated(r) ==
    \/ Called("Room.update") /\ ret'.arg = r
    \/ Called("update") /\ get_current_room' = r

\* C9: is_cleared is a one-way flag: Room.update sets it when the enemy list
\* is empty after updating, and no later add_enemy, removal or update
\* (repopulating the room included) sets it back to false.
C9_ClearedIsOneWay ==
    [][\A r \in RoomObjs :
          /\ is_cleared[r] => is_cleared'[r]
          /\ (RoomUpdated(r) /\ Len(enemies'[r]) = 0) => is_cleared'[r]
          /\ (~is_cleared[r] /\ is_cleared'[r]) =>
                (RoomUpdated(r) /\ Len(enemies'[r]) = 0)]_vars

\* a cleared room was repopulated and updated again
C9_Witness ==
    \E r \in RoomObjs :
        /\ is_cleared[r]
        /\ Len(enemies[r]) > 0
        /\ ret.op = "Room.update"
        /\ ret.arg = r

(***************************************************************************)
(* Properties of the enemies                                               *)
(***************************************************************************)
\* C10: for every entity and every amount >= 0, take_damage(amount) subtracts
\* exactly amount from health and returns true if and only if health <= 0
\* after the subtraction; an amount >= the current health always yields the
\* dead signal, and health never increases.
C10_TakeDamageSubtracts ==
    [][Called("take_damage") =>
        LET e == ret'.arg[1]
            amount == ret'.arg[2]
        IN  /\ health'[e] = health[e] - amount
            /\ ret'.val = PyTrue <=> health'[e] <= 0
            /\ ret'.val \in {PyTrue, PyFalse}
            /\ amount >= health[e] => ret'.val = PyTrue
            /\ health'[e] <= health[e]
            /\ \A o \in Entities \ {e} : health'[o] = health[o]]_vars

\* a hit larger than the remaining health left the enemy below zero
C10_Witness ==
    /\ ret.op = "take_damage"
    /\ ret.val = PyTrue
    /\ health[ret.arg[1]] < 0
    /\ health[ret.arg[1]] + ret.arg[2] > 0

\* C11 as stated: in every reachable state every entity satisfies
\* 0 <= health <= max_health, health being clamped at 0 when damage exceeds
\* the remaining health.
C11_HealthClampedAtZero ==
    \A e \in Entities : 0 <= health[e] /\ health[e] <= max_health(e)

\* C11, amended: in every reachable state every enemy satisfies
\* health <= max_health; take_damage does not clamp, so after a hit larger
\* than the remaining health the health is the negative difference.
C11_HealthAtMostMax ==
    /\ \A e \in Entities : health[e] <= max_health(e)
    /\ (ret.op = "take_damage" /\ ret.val = PyFalse) => health[ret.arg[1]] > 0

\* a Gaunt at full health took a melta round: 30 - 40
C11_Witness ==
    /\ ret.op = "take_damage"
    /\ ret.arg = <<"gaunt", Pts(40)>>
    /\ health["gaunt"] = Pts(-10)
    /\ health["gaunt"] <= max_health("gaunt")

(***************************************************************************)
(* Properties of the boss                                                  *)
(***************************************************************************)
\* C12: for a Boss with a non-empty phase list, in every reachable state
\* exactly one phase has active = true and it is current_phase; the index of
\* current_phase in the phase list never decreases over any sequence of
\* add_phase, take_damage and update calls.
C12_OneActivePhaseForward ==
    /\ [](Len(boss.phases) > 0 =>
            /\ InList(boss.phases, boss.current_phase)
            /\ \A p \in PhaseObjs : boss.active[p] <=> p = boss.current_phase)
    /\ [][Len(boss.phases) > 0 =>
            Index(boss'.phases, boss'.current_phase)
                >= Index(boss.phases, boss.current_phase)]_vars

\* the boss has gone through its three phases, added out of threshold order
C12_Witness ==
    /\ boss.phases = <<"Final", "Normal", "Enraged">>
    /\ boss.current_phase = "Enraged"
    /\ boss.active["Enraged"]
    /\ ret.op = "Boss.update"

IsPrefix(s, t) == Len(s) <= Len(t) /\ \A i \in 1..Len(s) : s[i] = t[i]

\* C13: for every phase list ordered by descending threshold, when health is
\* reduced from 100% to 0% in small increments with an update after each
\* increment, the successive current phases are the phases of the list in
\* list order, each exactly once: the first phase is the first current phase,
\* none is skipped, none comes back, and when health is gone every phase has
\* been current.
C13_DrainVisitsEveryPhase ==
    /\ IsPrefix(phase_trace, boss.phases)
    /\ Len(boss.phases) > 0 =>
          /\ Len(phase_trace) > 0
          /\ boss.current_phase = phase_trace[Len(phase_trace)]
    /\ (ret.op = "Boss.update" /\ boss.health <= 0) =>
          phase_trace = boss.phases

\* the boss of three phases has been worn down to nothing
C13_Witness ==
    /\ ret.op = "Boss.update"
    /\ boss.health <= 0
    /\ boss.phases = <<"Normal", "Enraged", "Final">>
    /\ phase_trace = <<"Normal", "Enraged", "Final">>

\* the step moved the boss to another phase
PhaseAdvanced ==
    /\ boss.current_phase # None
    /\ boss'.current_phase # boss.current_phase

\* what entering a phase does to the damage multiplier and the speed
EnrageEffect ==
    IF boss'.current_phase = "Enraged"
    THEN /\ boss'.damage_multiplier = 2 * boss.damage_multiplier
         /\ 2 * boss'.speed.num * boss.speed.den
                = 3 * boss.speed.num * boss'.speed.den
    ELSE /\ boss'.damage_multiplier = boss.damage_multiplier
         /\ boss'.speed = boss.speed

\* C14: whenever update_phase advances the boss to a next phase, right after
\* it pattern_timer = 0 and current_pattern = 0, summoned_minions and
\* arena_effects are empty, and the damage multiplier is doubled and the speed
\* multiplied by 1.5 if and only if the phase entered is named "Enraged".
\* When Boss.update makes the advance, its update_attack_pattern has counted
\* the frame by the time it returns: pattern_timer = 1.
C14_PhaseTransitionEffects ==
    [][PhaseAdvanced =>
        /\ Called("update_phase") \/ Called("Boss.update")
        /\ boss'.pattern_timer = IF Called("update_phase") THEN 0 ELSE 1
        /\ boss'.current_pattern = 0
        /\ boss'.summoned_minions = <<>>
        /\ boss'.arena_effects = <<>>
        /\ EnrageEffect]_vars

\* update_phase has just enraged the boss
C14_Witness ==
    /\ ret.op = "update_phase"
    /\ boss.current_phase = "Enraged"
    /\ phase_trace = <<"Normal", "Enraged">>
    /\ boss.damage_multiplier = 2
    /\ boss.speed = [num |-> 9, den |-> 2]
    /\ boss.pattern_timer = 0

\* C15 as stated: use_ability(name) returns true and stamps last_used = now
\* exactly when now - last_used >= cooldown, and returns false and changes
\* nothing otherwise.
C15_UsableExactlyOffCooldown ==
    [][(Called("use_ability") /\ ret'.arg \in AbilityNames) =>
        LET a == ret'.arg IN
        IF clock - boss.last_used[a] >= cooldown(a)
        THEN ret'.val = PyTrue /\ boss'.last_used[a] = clock
        ELSE ret'.val = PyFalse /\ boss' = boss]_vars

\* C15, amended: use_ability(name) returns true and stamps last_used = now
\* exactly when the ability's active flag is set, and the flag is set only
\* by update_abilities, at a time when now - last_used >= cooldown; so a
\* successful use implies now - last_used >= cooldown and two successful
\* uses of an ability are at least its cooldown apart, while an ability
\* whose cooldown has run out stays unusable until update_abilities has run.
\* A call that returns false changes no state.
C15_UsableWhenFlagged ==
    /\ [](\A a \in AbilityNames :
            boss.ability_active[a] => clock - boss.last_used[a] >= cooldown(a))
    /\ [][Called("use_ability") =>
            LET a == ret'.arg IN
            IF a \in AbilityNames /\ boss.ability_active[a]
            THEN /\ ret'.val = PyTrue
                 /\ boss'.last_used[a] = clock
                 /\ clock - boss.last_used[a] >= cooldown(a)
                 /\ boss' = [boss EXCEPT !.last_used[a] = clock,
                                         !.ability_active[a] = FALSE]
            ELSE /\ ret'.val = PyFalse
                 /\ boss' = boss]_vars
    /\ [][\A a \in AbilityNames :
            (~boss.ability_active[a] /\ boss'.ability_active[a]) =>
                /\ Called("update_abilities") \/ Called("Boss.update")
                /\ clock - boss.last_used[a] >= cooldown(a)]_vars

\* an ability was used a second time, one cooldown after the first
C15_Witness ==
    /\ ret.op = "use_ability"
    /\ ret.val = PyTrue
    /\ ret.arg = "psychic_scream"
    /\ boss.last_used["psychic_scream"] = clock
    /\ clock = 2 * cooldown("psychic_scream")

(***************************************************************************)
(* Properties of ranged combat                                             *)
(***************************************************************************)
\* the enemies of the game's list whose rectangle the bullet's square overlaps
Touched(bullet) ==
    {e \in Entities : /\ InList(game.enemies, e)
                      /\ RectsIntersect(bullet_rect(bullet), enemy_rect(e))}

\* the bullets of a list that touch no enemy, in order
RECURSIVE Misses(_)
Misses(bullets) ==
    IF bullets = <<>> THEN <<>>
    ELSE IF Touched(Head(bullets)) = {} THEN <<Head(bullets)>> \o Misses(Tail(bullets))
    ELSE Misses(Tail(bullets))

\* a list without the members of a set, in order
RECURSIVE Without(_, _)
Without(list, gone) ==
    IF list = <<>> THEN <<>>
    ELSE IF Head(list) \in gone THEN Without(Tail(list), gone)
    ELSE <<Head(list)>> \o Without(Tail(list), gone)

Members(list) == {list[i] : i \in 1..Len(list)}

WeaponDamage(weapon) ==
    CASE weapon = "bolter" -> Pts(20)
      [] weapon = "plasma" -> Pts(30)
      [] weapon = "melta" -> Pts(40)

\* the health all enemies together lose in the step
HealthLost ==
    (health["gaunt"] - health'["gaunt"])
        + (health["genestealer"] - health'["genestealer"])

\* the sum, over the bullets of the list that hit, of the damage of the
\* weapon each was fired with
RECURSIVE FiredDamage(_)
FiredDamage(bullets) ==
    IF bullets = <<>> THEN 0
    ELSE (IF Touched(Head(bullets)) = {} THEN 0
          ELSE WeaponDamage(Head(bullets).fired_with))
         + FiredDamage(Tail(bullets))

\* C17 as stated: the damage a projectile applies on hit is its base damage
\* times the multiplier of the weapon it was fired with.
C17_DamageOfFiringWeapon ==
    [][Called("check_bullet_collisions") =>
        HealthLost = FiredDamage(scout.bullets)]_vars

\* C17, amended: the damage a projectile applies on hit is its base damage
\* times the multiplier of the weapon the player has selected when the hit is
\* resolved: x1.0 for bolter, x1.5 for plasma, x2.0 for melta (base 20 gives
\* 20, 30, 40).
C17_DamageOfCurrentWeapon ==
    [][Called("check_bullet_collisions") =>
        LET hits == Len(scout.bullets) - Len(Misses(scout.bullets)) IN
        HealthLost = hits * WeaponDamage(scout.current_weapon)]_vars

\* a plasma hit took 30 of the Genestealer's 50 points
C17_Witness ==
    /\ ret.op = "check_bullet_collisions"
    /\ scout.current_weapon = "plasma"
    /\ scout.bullets = <<>>
    /\ health["genestealer"] = Pts(20)
    /\ health["gaunt"] = InitialHealth("gaunt")

(***************************************************************************)
(* Properties of melee combat                                              *)
(***************************************************************************)
Hall == RoomOf("main_hall")
\* a step that resolves a melee: the player's check_enemy_collision or the
\* game's check_melee_attack
MeleeResolved == ret'.op \in {"check_enemy_collision", "check_melee_attack"}
\* the distance between the centres of the player and enemy e
DistanceTo(e) == Distance(CentreDx(e), CentreDy(e))
\* e is strictly inside the half-plane in front of the player
InFrontHalfPlane(e) ==
    IF scout.direction = "right" THEN CentreDx(e) > 0 ELSE CentreDx(e) < 0
\* e is not behind the player
NotBehind(e) ==
    IF scout.direction = "right" THEN CentreDx(e) >= 0 ELSE CentreDx(e) <= 0

\* C18: the melee damage applied to an enemy at distance d from the attacking
\* player (in reach: d <= attack_range, and not behind the player) is
\* attack_damage * (1 - d / attack_range), so attack_damage at d = 0, half of
\* it at half the range and nothing at d = attack_range. The code applies no
\* damage to an enemy at d = 0.
C18_DamageByDistance ==
    [][(MeleeResolved /\ scout.is_attacking)
       => \A e \in Entities :
              (/\ InList(enemies[Hall], e)
               /\ DistanceTo(e) <= attack_range
               /\ NotBehind(e))
              => health'[e] = health[e]
                    - (Pts(attack_damage) * (attack_range - DistanceTo(e)))
                          \div attack_range]_vars

\* C19: a step changes the health of an enemy only if it resolves a melee
\* while is_attacking is set, the enemy is in the list handed to the check,
\* nearer than attack_range and strictly in front of the player; with
\* is_attacking false check_enemy_collision returns the empty list, and no
\* enemy's health or room changes.
C19_MeleeOnlyInFrontInRange ==
    [][/\ \A e \in Entities :
              health'[e] # health[e]
              => /\ MeleeResolved
                 /\ scout.is_attacking
                 /\ InList(enemies[Hall], e)
                 /\ DistanceTo(e) < attack_range
                 /\ InFrontHalfPlane(e)
       /\ (MeleeResolved /\ ~scout.is_attacking)
              => /\ health' = health
                 /\ enemies' = enemies
                 /\ game' = game
                 /\ ret'.op = "check_enemy_collision" => ret'.val = <<>>]_vars

\* C19 witness: a melee was resolved with the Genestealer in front at three
\* quarters of the range, which lost a quarter of attack_damage, and the
\* Gaunt, in the same list and not in front of the player, which lost nothing
C19_Witness ==
    /\ ret.op = "check_melee_attack"
    /\ scout.is_attacking
    /\ enemies[Hall] = <<"gaunt", "genestealer">>
    /\ DistanceTo("genestealer") = 45
    /\ InFrontHalfPlane("genestealer")
    /\ ~InFrontHalfPlane("gaunt")
    /\ health["genestealer"] = Pts(50) - 25
    /\ health["gaunt"] = Pts(30)

\* C20: a melee attack resolved on a Gaunt of the current room at distance 0
\* takes attack_damage from its health (30 to 5, then 5 to -20); a Gaunt left
\* with health above 0 stays in the room's list, and one left at 0 or below is
\* removed from it and kills grows by one for it. The code leaves the Gaunt
\* at 30.
C20_MeleeScenario ==
    [][(/\ ret'.op = "check_melee_attack"
        /\ scout.is_attacking
        /\ InList(enemies[Hall], "gaunt")
        /\ DistanceTo("gaunt") = 0)
       => LET left == health["gaunt"] - Pts(attack_damage)
              others == IF InList(enemies[Hall], "genestealer")
                           /\ ~InList(enemies'[Hall], "genestealer")
                        THEN 1 ELSE 0
          IN  /\ health'["gaunt"] = left
              /\ left > 0 => /\ InList(enemies'[Hall], "gaunt")
                             /\ game'.kills = game.kills + others
              /\ left <= 0 => /\ ~InList(enemies'[Hall], "gaunt")
                              /\ game'.kills = game.kills + 1 + others]_vars

(***************************************************************************)
(* Properties of the player's health                                       *)
(***************************************************************************)
\* what the hit should cost, in thousandths: the amount less the reduction by
\* armor, which is capped at 80% of the amount, and never less than a point
ExpectedDamage(amount, armor) ==
    Max(Milli(1), amount * 100 - Min(amount * armor, amount * 80))

\* C23 as stated: take_damage takes exactly the actual damage from the
\* player's health and returns true iff the health is then <= 0. A hit for
\* more than the health left falls short of it: the health stops at 0.
C23_HealthLessActual ==
    [][Called("ScoutMarine.take_damage")
       => /\ scout'.health
               = scout.health - ExpectedDamage(ret'.arg, scout.armor)
          /\ ret'.val = PyBool(scout'.health <= 0)]_vars

\* C23: take_damage takes the actual damage max(1, amount - min(amount *
\* 0.01 * armor, amount * 0.8)) from the player's health, stops the health
\* at 0, and returns true iff the health is then 0; 100 points deal 80 under
\* armor 20 and 20 under any armor of 80 or more, and every hit on a player
\* with more than a point of health costs a point at least.
C23_HealthLessActualClamped ==
    [][Called("ScoutMarine.take_damage")
       => LET actual == ExpectedDamage(ret'.arg, scout.armor) IN
          /\ scout'.health = Max(0, scout.health - actual)
          /\ ret'.val = PyBool(scout'.health <= 0)
          /\ (ret'.arg = 1000 /\ scout.armor = 20) => actual = Milli(80)
          /\ (ret'.arg = 1000 /\ scout.armor >= 80) => actual = Milli(20)
          /\ actual >= Milli(1)
          /\ scout.health > Milli(1) => scout'.health <= scout.health - Milli(1)
          /\ UNCHANGED <<game, health>>]_vars

\* C23 witness: 100 points have just hit a fresh player under armor 100 and
\* left a health of 80
C23_Witness ==
    /\ ret.op = "ScoutMarine.take_damage"
    /\ ret.arg = 1000
    /\ ret.val = PyFalse
    /\ scout.armor = 100
    /\ scout.health = Milli(80)

(***************************************************************************)
(* Properties of the pickups                                               *)
(***************************************************************************)
\* C24: once the manager has processed a pickup that was collected (collect
\* was invoked on it) or whose lifetime is over, the pickup is no longer in
\* PickupManager.pickups, and no collected or expired pickup is drawn. The
\* code keeps a crate that added no ammo in the list, collected, and draws it.
C24_CollectedOrExpiredIsGone ==
    /\ ret.op \in {"PickupManager.check_collisions", "PickupManager.update"}
       => \A i \in 1..Len(pickup_manager.pickups) :
              /\ ~pickup_manager.pickups[i].collected
              /\ pickup_manager.pickups[i].active
    /\ ret.op = "PickupManager.draw"
       => \A i \in 1..Len(pickup_manager.pickups) :
              pickup_manager.pickups[i].id \in ret.val
              => ~pickup_manager.pickups[i].collected

(***************************************************************************)
(* Properties of RoomManager.update during a transition                    *)
(***************************************************************************)
\* C30: on every call, RoomManager.update either advances the transition in
\* progress or updates the active room, never both: a call made while a
\* transition is in progress leaves the rooms as they were.
C30_TransitionOrRoomNeverBoth ==
    [][Called("update") /\ is_transitioning => UNCHANGED roomVars]_vars

(***************************************************************************)
(* Properties of the enemies' attacks and special abilities                *)
(***************************************************************************)
\* C27: attack(target) by an enemy sets its last_attack_time to the current
\* time, marks it attacking, takes its damage off the target's health and
\* returns that damage; can_attack asked right after the attack, within
\* attack_cooldown, is false.
C27_AttackStrikesTarget ==
    [][\A e \in Entities :
         /\ Called("attack") /\ ret'.arg = e
              => /\ tyranid'.last_attack_time[e] = clock
                 /\ tyranid'.is_attacking[e]
                 /\ scout'.health = scout.health - Milli(damage(e))
                 /\ ret'.val = damage(e)
         /\ Called("can_attack") /\ ret.op = "attack" /\ ret.arg = e /\ ret'.arg = e
              => ret'.val = PyFalse]_vars

\* the operation of each special ability
SpecialOp(a) ==
    CASE a = "lictor" -> "try_stealth"
      [] a = "zoanthrope" -> "psychic_blast"
      [] a = "hive_tyrant" -> "psychic_scream"
      [] a = "harpy" -> "swoop_attack"
      [] a = "mawloc" -> "emerge"

\* the step is a successful trigger of ability a
Triggers(a) ==
    /\ Called(SpecialOp(a))
    /\ IF a = "zoanthrope" THEN CooldownPassed(a) ELSE ret'.val = PyTrue

\* history kept by the objects: the time of the last successful trigger of
\* a, 0 when there was none (the Mawloc records it in emergence_time)
LastTriggered(a) ==
    IF a = "mawloc" THEN tyranid.emergence_time ELSE tyranid.last_trigger[a]

\* C28: no special ability fires more than once per cooldown window: a
\* successful trigger comes at least its cooldown after the previous
\* successful trigger of the same ability.
C28_OncePerCooldown ==
    [][\A a \in Specials :
         Triggers(a) /\ LastTriggered(a) > 0
             => clock - LastTriggered(a) >= SpecialCooldown(a)]_vars

(***************************************************************************)
(* Properties of the factories and their callers                           *)
(***************************************************************************)
\* C25: create_tyranid, create_boss and create_pickup return None for every
\* type string that is not a key of their table; spawn_enemy never appends
\* None to the enemy list; and boss_active is never true while current_boss
\* is None.
C25_NullResultsChecked ==
    /\ ret.op = "create_tyranid" /\ Lower(ret.arg) \notin tyranid_classes
           => ret.val = None
    /\ ret.op = "create_boss" /\ Lower(ret.arg) \notin boss_classes
           => ret.val = None
    /\ ret.op = "create_pickup" /\ Lower(ret.arg) \notin pickup_classes
           => ret.val = None
    /\ \A i \in 1..Len(game.enemies) : game.enemies[i] # None
    /\ game.boss_active => game.current_boss # None

(***************************************************************************)
(* Properties of the ammunition                                            *)
(***************************************************************************)
\* C26: on every path that shoots, a shot with ammo 0 creates no projectile
\* and leaves ammo at 0; a reload with ammo = max_ammo changes nothing;
\* every projectile created takes exactly 1 off ammo; and ammo stays
\* between 0 and max_ammo.
C26_AmmoAccounting ==
    [][/\ Len(scout'.bullets) > Len(scout.bullets)
            => game.ammo > 0 /\ game'.ammo = game.ammo - 1
       /\ game.ammo = 0 /\ (Called("shoot") \/ Called("Game.shoot"))
            => scout'.bullets = scout.bullets /\ game'.ammo = 0
       /\ Called("reload") /\ game.ammo = max_ammo
            => UNCHANGED <<game, scout>>
       /\ game'.ammo \in 0..max_ammo]_vars

(***************************************************************************)
(* Properties of the frames of the game                                    *)
(***************************************************************************)
\* the enemies of the game's list that overlap the player, in the order of
\* the list
Touching == SelectSeq(game.enemies, TouchesPlayer)

\* what the enemies of a list take off the player's health in one tick, each
\* counted once
RECURSIVE TickDamage(_)
TickDamage(list) ==
    IF list = <<>> THEN 0
    ELSE ExpectedDamage(damage(Head(list)), scout.armor) + TickDamage(Tail(list))

\* C21: in a tick, every enemy that overlaps the player applies
\* take_damage(0.1 * damage) to it exactly once, and game_over is true at
\* the end of the step in which the player's health reaches 0 or less.
C21_EachTouchingEnemyHitsOnce ==
    [][/\ Called("check_enemy_collisions")
            => /\ ret'.val = Touching
               /\ scout'.health = Max(0, scout.health - TickDamage(Touching))
       /\ scout.health > 0 /\ scout'.health <= 0 => game'.game_over]_vars

C21_Witness ==
    /\ ret.op = "check_enemy_collisions"
    /\ ret.val # <<>>
    /\ scout.health = 0
    /\ game.game_over

\* the state of play
GameplayState ==
    <<scout, scout_x, scout_y, health, enemy_pos, enemies, pickup_manager,
      game.enemies, game.kills, game.current_boss, game.boss_active,
      game.ammo, game.game_over>>

\* the step is a restart: R pressed while the game is over
Restarts == Called("handle_events") /\ ret'.arg = "K_r"

C29_NoUpdateOfTheDead ==
    [][/\ Called("update_enemies")
            => \A i \in 1..Len(game.enemies) : health[game.enemies[i]] > 0
       /\ Called("update")
            => LET current_room == DictGet(rooms', current_room_id') IN
               current_room # None
                   => \A i \in 1..Len(enemies[current_room]) :
                          health[enemies[current_room][i]] > 0]_vars

\* an enemy was killed and removed, and the enemy loop has run since
C29_Witness ==
    /\ ret.op = "update_enemies"
    /\ \E e \in Entities :
           /\ enemy_pos[e] # <<>>
           /\ health[e] <= 0
           /\ ~InList(game.enemies, e)
           /\ \A r \in RoomObjs : ~InList(enemies[r], e)

(***************************************************************************)
(* Properties of the boss's phases under a large loss of health            *)
(***************************************************************************)
\* the position of the boss's current phase in its phase list
PhaseIndex(b) == Index(b.phases, b.current_phase)

\* the health of b is at or below the threshold of phase p
AtOrBelow(b, p) == b.health * 100 <= health_threshold(p) * BossMaxHealth

\* C31: one update_phase call advances current_phase by at most one position
\* of the phase list, even when the health is at or below the thresholds of
\* several later phases; it advances by exactly one whenever the health is
\* at or below the current phase's threshold and a later phase exists, so
\* the remaining phases are reached one per later call.
C31_OnePhasePerCall ==
    [][Called("update_phase") /\ boss.current_phase # None
          => /\ boss'.phases = boss.phases
             /\ PhaseIndex(boss') =
                   IF AtOrBelow(boss, boss.current_phase)
                      /\ PhaseIndex(boss) < Len(boss.phases) - 1
                   THEN PhaseIndex(boss) + 1
                   ELSE PhaseIndex(boss)]_vars

\* the health is below the thresholds of both later phases, and the call
\* has moved the boss from the first phase to the second only
C31_Witness ==
    /\ ret.op = "update_phase"
    /\ boss.phases = <<"Normal", "Enraged", "Final">>
    /\ phase_trace = <<"Normal", "Enraged">>
    /\ AtOrBelow(boss, "Enraged")
    /\ AtOrBelow(boss, "Final")

(***************************************************************************)
(* Structural invariant of the room manager                                *)
(***************************************************************************)
\* C32: under any sequence of add_room, transition_to_room,
\* update_transition and update, current_room_id is None only while no room
\* has been added and is otherwise a key of rooms; is_transitioning is true
\* iff next_room_id is not None, and then next_room_id is a key of rooms;
\* transition_progress is 0 whenever no transition is in progress and is in
\* [0, 1) between operations.
C32_ManagerInvariant ==
    /\ current_room_id = None <=> DOMAIN rooms = {}
    /\ current_room_id # None => current_room_id \in DOMAIN rooms
    /\ is_transitioning <=> next_room_id # None
    /\ is_transitioning => next_room_id \in DOMAIN rooms
    /\ ~is_transitioning => transition_progress = 0
    /\ 0 <= transition_progress /\ transition_progress < ProgressOne

\* a transition to the second room is one tick from completion
C32_Witness ==
    /\ is_transitioning
    /\ DOMAIN rooms = RoomIds
    /\ next_room_id = "armory"
    /\ current_room_id = "main_hall"
    /\ transition_progress = ProgressOne - TransitionSpeed

(***************************************************************************)
(* The first phase of a boss that has not been hurt                        *)
(***************************************************************************)
\* C33: a boss at full health that takes no damage stays in its first phase
\* over any number of update() calls: the "Enraged" phase and its boost are
\* not entered until health has dropped to that phase's own threshold.
C33_UnhurtBossStaysNormal ==
    boss.phases = HiveTyrantPhases
        => /\ boss.health = BossMaxHealth
                => boss.current_phase = "Normal" /\ ~boss.enraged
           /\ boss.current_phase = "Enraged" => AtOrBelow(boss, "Enraged")

(***************************************************************************)
(* Side effects of Game.activate_room_transition                           *)
(***************************************************************************)
\* C34: is_visited marks the room the player entered: activating a
\* transition to a room does not set is_visited on the room being left, and
\* when the transition completes the room entered has is_visited true.
C34_VisitedMarksRoomEntered ==
    [][/\ (Called("activate_room_transition") /\ ~is_transitioning
              /\ is_transitioning')
            => is_visited'[current_room_id] = is_visited[current_room_id]
       /\ (is_transitioning /\ ~is_transitioning')
            => is_visited'[current_room_id']]_vars

\* C35: when transition_to_room returns False inside
\* activate_room_transition, the player's position is unchanged, no room's
\* is_visited flag changes, the transition's activation cooldown is not
\* consumed and no "Entered ..." message is posted.
C35_RejectedChangeHasNoEffect ==
    [][(Called("activate_room_transition") /\ ret'.arg # None
           /\ ret'.val.accepted = PyFalse)
         => /\ scout_x' = scout_x
            /\ scout_y' = scout_y
            /\ is_visited' = is_visited
            /\ last_activation_time' = last_activation_time
            /\ ret'.val.message = <<>>]_vars

(***************************************************************************)
(* A transition that has never been activated                              *)
(***************************************************************************)
\* C36: a RoomTransition that has never been activated imposes no cooldown:
\* at any clock value, the first 1000 ms included, can_activate returns
\* true when the transition is active, unlocked and overlapped by the
\* player.
C36_NeverActivatedNoCooldown ==
    ret.op = "can_activate" =>
        LET d == ret.arg[1]
            px == ret.arg[2]
            py == ret.arg[3]
        IN  (/\ activated_at[d] = -1
             /\ is_active[d]
             /\ ~is_locked[d]
             /\ is_player_colliding(d, px, py, PlayerWidth, PlayerHeight))
                => ret.val = PyTrue

(***************************************************************************)
(* The end states of a game                                                *)
(***************************************************************************)
\* C37: game_over and game_won are never both true, and once game_won is
\* true the later steps of Game.update neither change the player's health
\* nor set game_over.
C37_EndStatesExclusiveAndStable ==
    [][/\ ~(game'.game_over /\ game'.game_won)
       /\ (game.game_won /\ ret'.op # "handle_events")
            => /\ scout'.health = scout.health
               /\ game'.game_over = game.game_over]_vars

(***************************************************************************)
(* Minions that have been killed                                           *)
(***************************************************************************)
\* C38: is_alive is false whenever health <= 0, so that a summoned minion
\* killed through take_damage is no longer in Boss.summoned_minions after
\* the next update.
C38_DeadMinionsRemoved ==
    \A i \in 1..Len(boss.summoned_minions) :
        LET minion == boss.summoned_minions[i] IN
        /\ minion.health <= 0 => ~minion.is_alive
        /\ ret.op = "Boss.update" => minion.health > 0

(***************************************************************************)
(* The player's health under hits, healing and the enemies' abilities      *)
(***************************************************************************)
\* the damage, in tenths of a point, that the call just made deals
RawDamage ==
    CASE ret'.op = "ScoutMarine.take_damage" -> ret'.arg
      [] ret'.op = "psychic_blast" -> 10 * ret'.val
      [] ret'.op \in {"ambush_attack", "ground_pound"} -> ret'.val
      [] OTHER -> 0

\* C39: the player's health stays within [0, max_health] under any sequence
\* of take_damage, heal, ambush_attack, ground_pound and psychic_blast, and
\* every decrease of the health is the one the armor formula of take_damage
\* computes for the damage dealt.
C39_HealthBoundedAndArmored ==
    [][/\ 0 <= scout'.health
       /\ scout'.health <= Milli(player_max_health)
       /\ scout'.health < scout.health
            => scout'.health = PlayerTakeDamage(scout, RawDamage).scout.health]_vars

(***************************************************************************)
(* Ammo granted by a crate                                                 *)
(***************************************************************************)
\* the ammo types of the player
AmmoTypes == DOMAIN scout.ammo

\* C40: AmmoCrate.collect grants ammo at most once per crate and never
\* beyond capacity: every ammo count of the player is at most its maximum;
\* for every crate of the manager, a first collect adds min(space left,
\* ammo_amount) to the count of the crate's ammo_type and changes no other
\* count, and every later collect on the same crate returns False and adds
\* nothing.
C40_AmmoGrantedOnce ==
    /\ \A t \in AmmoTypes : scout.ammo[t] <= MaxAmmoOf(t)
    /\ \A i \in 1..Len(pickup_manager.pickups) :
          LET crate == pickup_manager.pickups[i]
              t == crate.ammo_type
              space_left == MaxAmmoOf(t) - scout.ammo[t]
              first == Collect(crate, scout)
              later == Collect(first.pickup, first.scout)
          IN  /\ \A u \in AmmoTypes \ {t} : first.scout.ammo[u] = scout.ammo[u]
              /\ first.scout.ammo[t] <= MaxAmmoOf(t)
              /\ ~crate.collected
                    => first.scout.ammo[t] = scout.ammo[t] +
                          (IF space_left < crate.ammo_amount THEN space_left
                           ELSE crate.ammo_amount)
              /\ crate.collected => ~first.val /\ first.scout = scout
              /\ ~later.val
              /\ later.scout = first.scout

\* the player took a crate that filled the plasma ammo, and a second plasma
\* crate, which collect was called on, is still listed for later calls
C40_Witness ==
    /\ ret.op = "PickupManager.check_collisions"
    /\ scout.ammo["plasma"] = MaxAmmoOf("plasma")
    /\ \E i \in 1..Len(pickup_manager.pickups) :
          /\ pickup_manager.pickups[i].collected
          /\ pickup_manager.pickups[i].ammo_type = "plasma"

====
